---- MODULE Spec2Model ----
(***************************************************************************)
(* A model of djongo/sql2mongo/query.py: the statement dispatcher (Query), *)
(* the SELECT compiler (SelectQuery) and the INSERT compiler (InsertQuery) *)
(* with its autoincrement emulation over the __schema__ collection.        *)
(*                                                                         *)
(* Python values are records carrying a "type" field, so that None, ints,  *)
(* lists and objects can be told apart and tested for truthiness the way   *)
(* Python does.                                                            *)
(***************************************************************************)
EXTENDS Integers, Sequences, FiniteSets, TLC

VARIABLES
    sql,                 \* the statement text given to Query(...), as parsed by sqlparse
    _sql,                \* Query._sql, of a text given character by character
    enforce_schema,      \* connection_properties.enforce_schema
    cached_collections,  \* connection_properties.cached_collections
    fault,               \* where a converter or the store driver raises, and what
    _query,              \* Query._query
    _result_generator,   \* Query._result_generator
    last_row_id,         \* Query.last_row_id
    raised,              \* the exception the last call on the Query let out to the caller
    called,              \* the last call the caller made on the Query
    row,                 \* the tuple the last __next__ yielded
    doc,                 \* the document the store cursor handed to the last __next__
    counted,             \* the value the last count() returned
    store_calls,         \* the store operations issued so far, in order
    db,                  \* the data collections: table name -> sequence of documents
    schema,              \* the __schema__ collection: table name -> metadata document
    ins                  \* the INSERT statements in flight: process -> InsertQuery state

vars == <<sql, _sql, enforce_schema, cached_collections, fault, _query, _result_generator,
          last_row_id, raised, called, row, doc, counted, store_calls, db, schema, ins>>

---------------------------------------------------------------------------
(* Bounds *)

MaxClauses == 2     \* clauses after FROM in a SELECT
MaxCols == 2        \* columns in a select list or an INSERT column list
MaxDocs == 2        \* documents a store cursor returns
MaxRows == 2        \* rows of one INSERT
MaxSeq == 1         \* the sequence counter of a table before the statements run
MaxConst == 1       \* constants 0..MaxConst in a select list
MaxProcs == 2       \* callers with an INSERT statement in flight
MaxCalls == 3       \* store calls of one statement after which count() is not asked again
MaxScript == 3      \* statements a caller runs one after the other
MaxText == 5        \* characters of a statement text given character by character

---------------------------------------------------------------------------
(* Python values *)

None == [type |-> "NoneType"]
PyInt(n) == [type |-> "int", value |-> n]
PyList(s) == [type |-> "list", items |-> s]
PyTuple(s) == [type |-> "tuple", items |-> s]
PyBool(b) == [type |-> "bool", value |-> b]
PyStr(s) == [type |-> "str", value |-> s]

\* bool(v): None, 0, False and empty lists are falsy; every other object,
\* converter and cursor is truthy (none of them defines __bool__ or __len__).
Truthy(v) ==
    CASE v.type = "NoneType" -> FALSE
      [] v.type = "int" -> v.value # 0
      [] v.type = "bool" -> v.value
      [] v.type \in {"list", "tuple"} -> Len(v.items) > 0
      [] OTHER -> TRUE

\* An attribute that is not set yet on an object under construction.
Unset == [type |-> "unset"]

SeqsUpTo(S, n) == UNION {[1..k -> S] : k \in 0..n}

---------------------------------------------------------------------------
(* What the tokenizer and the clause converters hand to the compilers *)

LeftTable == "t"
ForeignTable == "u"
Columns == {"a", "b"}

\* A selected column: table.column, or a function call known by its alias.
SQLToken(table, column) == [type |-> "SQLToken", table |-> table, column |-> column]
SQLFunc(alias) == [type |-> "SQLFunc", alias |-> alias]
ColumnTokens ==
    {SQLToken(t, c) : t \in {LeftTable, ForeignTable}, c \in Columns} \cup {SQLFunc("n")}

\* The clause keywords a SELECT statement can hold after SELECT ... FROM ...;
\* UNION stands for a keyword SelectQuery.parse has no branch for.
ClauseKeywords ==
    {"INNER JOIN", "LEFT OUTER JOIN", "WHERE", "GROUP", "HAVING", "ORDER", "OFFSET",
     "LIMIT", "UNION"}

\* A SELECT statement: its select list (DISTINCT or not, a constant "(k) AS x"
\* or column tokens), whether its WHERE holds a nested IN (SELECT ...), and
\* the clause keywords after FROM in source order.
SelectList(distinct, const, tokens) ==
    [distinct |-> distinct, const |-> const, tokens |-> tokens]
SelectStatement(list, nested, tail) ==
    [columns |-> list, nested |-> nested, tail |-> tail]

\* ColumnSelectConverter(query, statement): return_const holds the constant of
\* a "(k) AS x" select list as an int, has_func whether a function is selected.
ColumnSelectConverter(list) ==
    [type |-> "ColumnSelectConverter",
     return_const |-> list.const,
     has_func |-> PyBool(\E i \in DOMAIN list.tokens : list.tokens[i].type = "SQLFunc"),
     sql_tokens |-> IF list.distinct THEN <<>> ELSE list.tokens]

\* DistinctConverter, which ColumnSelectConverter stores in query.distinct
\* when the select list starts with DISTINCT.
DistinctConverter(list) ==
    IF list.distinct
    THEN [type |-> "DistinctConverter", sql_tokens |-> list.tokens]
    ELSE None

\* A clause converter of the given class, built at token position at.
Converter(class, at) == [type |-> class, at |-> at]

\* A pipeline stage: the clause it was compiled from, its operator and, for
\* a join, the position of the JOIN keyword in the statement.
Stage(clause, op, at) == [clause |-> clause, op |-> op, at |-> at]

\* converter.to_mongo() in pipeline form: the stage documents of one clause.
to_mongo(conv) ==
    CASE conv.type = "InnerJoinConverter" ->
            <<Stage("JOIN", "$lookup", conv.at), Stage("JOIN", "$unwind", conv.at)>>
      [] conv.type = "OuterJoinConverter" ->
            <<Stage("JOIN", "$lookup", conv.at), Stage("JOIN", "$unwind", conv.at)>>
      [] conv.type = "NestedInQueryConverter" -> <<Stage("NESTED", "$lookup", conv.at)>>
      [] conv.type = "AggWhereConverter" -> <<Stage("WHERE", "$match", conv.at)>>
      [] conv.type = "GroupbyConverter" ->
            <<Stage("GROUP", "$group", conv.at), Stage("GROUP", "$addFields", conv.at)>>
      [] conv.type = "HavingConverter" -> <<Stage("HAVING", "$match", conv.at)>>
      [] conv.type = "DistinctConverter" ->
            <<Stage("DISTINCT", "$group", 0), Stage("DISTINCT", "$replaceRoot", 0)>>
      [] conv.type = "AggOrderConverter" -> <<Stage("ORDER", "$sort", conv.at)>>
      [] conv.type = "AggOffsetConverter" -> <<Stage("OFFSET", "$skip", conv.at)>>
      [] conv.type = "AggLimitConverter" -> <<Stage("LIMIT", "$limit", conv.at)>>
      [] conv.type = "AggColumnSelectConverter" -> <<Stage("SELECT", "$project", 0)>>

\* converter.to_mongo() in simple-read form: the keyword argument of find().
to_mongo_kwargs(conv) ==
    CASE conv.type = "WhereConverter" -> {"filter"}
      [] conv.type = "ColumnSelectConverter" -> {"projection"}
      [] conv.type = "LimitConverter" -> {"limit"}
      [] conv.type = "OrderConverter" -> {"sort"}
      [] conv.type = "OffsetConverter" -> {"skip"}

\* conv with its __class__ switched to the aggregation form.
AsClass(conv, class) == [conv EXCEPT !.type = class]

---------------------------------------------------------------------------
(* SelectQuery *)

\* SelectQuery.__init__ before it calls parse().
SelectQuery_init ==
    [type |-> "SelectQuery",
     selected_columns |-> None, where |-> None, joins |-> PyList(<<>>),
     order |-> None, offset |-> None, limit |-> None, distinct |-> None,
     groupby |-> None, having |-> None, nested_query |-> None,
     left_table |-> None, _cursor |-> None]

\* One turn of the loop of SelectQuery.parse: the branch taken for the token
\* tok met at position at. exc is the bare SQLDecodeError of an unknown keyword.
SelectParseTok(q, tok, at, stmt) ==
    CASE tok = "SELECT" ->
            [exc |-> "none",
             q |-> [q EXCEPT !.selected_columns = ColumnSelectConverter(stmt.columns),
                             !.distinct = IF stmt.columns.distinct
                                          THEN DistinctConverter(stmt.columns)
                                          ELSE @]]
      [] tok = "FROM" -> [exc |-> "none", q |-> [q EXCEPT !.left_table = PyStr(LeftTable)]]
      [] tok = "LIMIT" ->
            [exc |-> "none", q |-> [q EXCEPT !.limit = Converter("LimitConverter", at)]]
      [] tok = "ORDER" ->
            [exc |-> "none", q |-> [q EXCEPT !.order = Converter("OrderConverter", at)]]
      [] tok = "OFFSET" ->
            [exc |-> "none", q |-> [q EXCEPT !.offset = Converter("OffsetConverter", at)]]
      [] tok = "INNER JOIN" ->
            [exc |-> "none",
             q |-> [q EXCEPT !.joins =
                        PyList(Append(@.items, Converter("InnerJoinConverter", at)))]]
      [] tok = "LEFT OUTER JOIN" ->
            [exc |-> "none",
             q |-> [q EXCEPT !.joins =
                        PyList(Append(@.items, Converter("OuterJoinConverter", at)))]]
      [] tok = "GROUP" ->
            [exc |-> "none", q |-> [q EXCEPT !.groupby = Converter("GroupbyConverter", at)]]
      [] tok = "HAVING" ->
            [exc |-> "none", q |-> [q EXCEPT !.having = Converter("HavingConverter", at)]]
      [] tok = "WHERE" ->
            [exc |-> "none",
             q |-> [q EXCEPT !.where = Converter("WhereConverter", at),
                             !.nested_query = IF stmt.nested
                                              THEN Converter("NestedInQueryConverter", at)
                                              ELSE @]]
      [] OTHER -> [exc |-> "SQLDecodeError(raw)", q |-> q]

\* The tokens of a SELECT statement in source order.
SelectTokens(stmt) == <<"SELECT", "FROM">> \o stmt.tail

RECURSIVE SelectParseFrom(_, _, _)
\* SelectQuery.parse from token position at on: the loop stops at the first
\* token that raises.
SelectParseFrom(q, at, stmt) ==
    IF at > Len(SelectTokens(stmt)) THEN [exc |-> "none", q |-> q]
    ELSE LET r == SelectParseTok(q, SelectTokens(stmt)[at], at, stmt)
         IN  IF r.exc # "none" THEN r ELSE SelectParseFrom(r.q, at + 1, stmt)

\* SelectQuery(db, connection_properties, statement, params).
SelectQuery(stmt) == SelectParseFrom(SelectQuery_init, 1, stmt)

_needs_aggregation(q) ==
    \/ Truthy(q.nested_query)
    \/ Truthy(q.joins)
    \/ Truthy(q.distinct)
    \/ Truthy(q.groupby)
    \/ Truthy(q.selected_columns.return_const)
    \/ Truthy(q.selected_columns.has_func)

_needs_column_selection(q) ==
    ~(Truthy(q.distinct) \/ Truthy(q.groupby)) /\ Truthy(q.selected_columns)

RECURSIVE JoinStages(_)
\* for join in self.joins: pipeline.extend(join.to_mongo())
JoinStages(joins) ==
    IF joins = <<>> THEN <<>> ELSE to_mongo(Head(joins)) \o JoinStages(Tail(joins))

\* The stages of one optional clause, compiled in its aggregation class.
StagesOf(conv, class) == IF Truthy(conv) THEN to_mongo(AsClass(conv, class)) ELSE <<>>

\* A pipeline that pages before it sorts.
MakePipelineSkipBeforeSort(q) ==
    JoinStages(q.joins.items)
    \o StagesOf(q.nested_query, "NestedInQueryConverter")
    \o StagesOf(q.where, "AggWhereConverter")
    \o StagesOf(q.groupby, "GroupbyConverter")
    \o StagesOf(q.having, "HavingConverter")
    \o StagesOf(q.distinct, "DistinctConverter")
    \o StagesOf(q.offset, "AggOffsetConverter")
    \o StagesOf(q.order, "AggOrderConverter")
    \o StagesOf(q.limit, "AggLimitConverter")
    \o (IF _needs_column_selection(q)
        THEN to_mongo(AsClass(q.selected_columns, "AggColumnSelectConverter"))
        ELSE <<>>)

_make_pipeline(q) ==
    JoinStages(q.joins.items)
    \o StagesOf(q.nested_query, "NestedInQueryConverter")
    \o StagesOf(q.where, "AggWhereConverter")
    \o StagesOf(q.groupby, "GroupbyConverter")
    \o StagesOf(q.having, "HavingConverter")
    \o StagesOf(q.distinct, "DistinctConverter")
    \o StagesOf(q.order, "AggOrderConverter")
    \o StagesOf(q.offset, "AggOffsetConverter")
    \o StagesOf(q.limit, "AggLimitConverter")
    \o (IF _needs_column_selection(q)
        THEN to_mongo(AsClass(q.selected_columns, "AggColumnSelectConverter"))
        ELSE <<>>)

\* The converters of q after _make_pipeline switched their classes.
AfterMakePipeline(q) ==
    LET Switch(conv, class) == IF Truthy(conv) THEN AsClass(conv, class) ELSE conv
    IN  [q EXCEPT !.where = Switch(@, "AggWhereConverter"),
                  !.order = Switch(@, "AggOrderConverter"),
                  !.offset = Switch(@, "AggOffsetConverter"),
                  !.limit = Switch(@, "AggLimitConverter"),
                  !.selected_columns =
                      IF _needs_column_selection(q)
                      THEN AsClass(@, "AggColumnSelectConverter") ELSE @]

\* kwargs of the find() call of the simple-read path.
FindKwargs(q) ==
    UNION {IF Truthy(conv) THEN to_mongo_kwargs(conv) ELSE {} :
           conv \in {q.where, q.selected_columns, q.limit, q.order, q.offset}}

\* A store operation as the driver receives it.
Call(op, table, pipeline, kwargs) ==
    [op |-> op, table |-> table, pipeline |-> pipeline, kwargs |-> kwargs]

\* SelectQuery._get_cursor up to the store call: the call it issues, and the
\* query with the converters it switched.
_get_cursor(q) ==
    IF _needs_aggregation(q)
    THEN [call |-> Call("aggregate", q.left_table.value, _make_pipeline(q), {}),
          q |-> AfterMakePipeline(q)]
    ELSE [call |-> Call("find", q.left_table.value, <<>>, FindKwargs(q)),
          q |-> q]

---------------------------------------------------------------------------
(* Store cursors and result documents *)

\* The value a document of table tbl holds in field col.
Val(tbl, col) == [type |-> "value", of |-> <<tbl, col>>]

\* The cursor find() or aggregate() returns: a pymongo Cursor or CommandCursor
\* that will hand out remaining documents; matched is what the store counts
\* for the filter alone; an aggregate cursor arrives with its first batch, a
\* find cursor asks the store on its first use.
NewCursor(call, n, m) ==
    [type |-> IF call.op = "find" THEN "Cursor" ELSE "CommandCursor",
     call |-> call,
     remaining |-> n,
     matched |-> IF call.op = "find" /\ call.kwargs \cap {"limit", "skip"} # {} THEN m ELSE n,
     fetched |-> call.op # "find",
     closed |-> FALSE]

\* cursor.alive: documents are buffered, or the store still holds the cursor.
Alive(cursor) == cursor.remaining > 0 \/ (~cursor.fetched /\ ~cursor.closed)

\* The column list _align_results walks.
AlignTokens(q) ==
    IF Truthy(q.distinct) THEN q.distinct.sql_tokens ELSE q.selected_columns.sql_tokens

\* The documents the store can return for the call q issued: every selected
\* field may be absent, a joined table's sub-document may be absent, computed
\* fields are present, and _const is present when the pipeline projects it.
DocsFor(q, call) ==
    LET toks == AlignTokens(q)
        cols(tb) == {toks[i].column : i \in {j \in DOMAIN toks :
                        toks[j].type = "SQLToken" /\ toks[j].table = tb}}
        aliases == {toks[i].alias : i \in {j \in DOMAIN toks : toks[j].type = "SQLFunc"}}
        const == IF /\ call.op = "aggregate"
                    /\ q.selected_columns.return_const # None
                    /\ \E i \in DOMAIN call.pipeline : call.pipeline[i].clause = "SELECT"
                 THEN {"_const"} ELSE {}
        foreign == {toks[i].table : i \in {j \in DOMAIN toks :
                        toks[j].type = "SQLToken" /\ toks[j].table # q.left_table.value}}
        Top(S) == [f \in S \cup aliases \cup const |->
                      IF f = "_const" THEN q.selected_columns.return_const
                      ELSE IF f \in aliases THEN Val("", f)
                      ELSE Val(q.left_table.value, f)]
        Subs == UNION {
                  {g \in [T -> UNION {{[c \in C |-> Val(tb, c)] : C \in SUBSET cols(tb)} :
                                      tb \in T}] :
                      \A tb \in T : \A c \in DOMAIN g[tb] : g[tb][c] = Val(tb, c)} :
                  T \in SUBSET foreign}
    IN  {[top |-> Top(S), sub |-> g] : S \in SUBSET cols(q.left_table.value), g \in Subs}

RECURSIVE AlignFrom(_, _, _, _)
\* The loop of _align_results over the column list toks: exc is the
\* exception that ends it, row the elements appended so far.
AlignFrom(toks, q, d, enforce) ==
    IF toks = <<>> THEN [exc |-> "none", row |-> <<>>]
    ELSE LET selected == Head(toks)
             missing == IF enforce THEN [exc |-> "MigrationError", elem |-> None]
                        ELSE [exc |-> "none", elem |-> None]
             one == IF selected.type = "SQLToken"
                    THEN IF selected.table = q.left_table.value
                         THEN IF selected.column \in DOMAIN d.top
                              THEN [exc |-> "none", elem |-> d.top[selected.column]]
                              ELSE missing
                         ELSE IF /\ selected.table \in DOMAIN d.sub
                                 /\ selected.column \in DOMAIN d.sub[selected.table]
                              THEN [exc |-> "none",
                                    elem |-> d.sub[selected.table][selected.column]]
                              ELSE missing
                    ELSE IF selected.alias \in DOMAIN d.top
                         THEN [exc |-> "none", elem |-> d.top[selected.alias]]
                         ELSE [exc |-> "KeyError", elem |-> None]
             rest == AlignFrom(Tail(toks), q, d, enforce)
         IN  IF one.exc # "none" THEN [exc |-> one.exc, row |-> <<>>]
             ELSE IF rest.exc # "none" THEN rest
             ELSE [exc |-> "none", row |-> <<one.elem>> \o rest.row]

\* A missing column always read as NULL.
AlignResultsNeverEnforced(q, d, enforce) == AlignFrom(AlignTokens(q), q, d, FALSE)

\* SelectQuery._align_results(doc)
_align_results(q, d, enforce) == AlignFrom(AlignTokens(q), q, d, enforce)

---------------------------------------------------------------------------
(* The store: data collections and the __schema__ metadata collection *)

Tables == {LeftTable, ForeignTable}

\* A metadata document of __schema__: {name, fields: {col: {type_code}},
\* auto: {seq, field_names}}; auto is None when the document has no auto key.
Auto(seq, field_names) == [type |-> "auto", seq |-> seq, field_names |-> field_names]
SchemaDoc(fields, auto) == [fields |-> fields, auto |-> auto]

\* A data collection: its documents in insertion order and its index names.
Collection(docs, indexes) == [docs |-> docs, indexes |-> indexes]

\* The counter left where it is.
FindOneAndUpdateNoInc(sch, name, num) ==
    IF name \in DOMAIN sch /\ sch[name].auto # None
    THEN [auto |-> sch[name].auto, schema |-> sch]
    ELSE [auto |-> None, schema |-> sch]

\* db['__schema__'].find_one_and_update({'name': name, 'auto': {'$exists': True}},
\* {'$inc': {'auto.seq': num}}, return_document=AFTER): one atomic store
\* operation; auto is the document's auto key after the increment, or None
\* when no document matches.
FindOneAndUpdate(sch, name, num) ==
    IF name \in DOMAIN sch /\ sch[name].auto # None
    THEN LET after == [sch[name].auto EXCEPT !.seq = @ + num]
         IN  [auto |-> after, schema |-> [sch EXCEPT ![name].auto = after]]
    ELSE [auto |-> None, schema |-> sch]

---------------------------------------------------------------------------
(* InsertQuery *)

\* InsertQuery.DEFAULT = object()
DEFAULT == [type |-> "object", id |-> "InsertQuery.DEFAULT"]

\* An INSERT statement: the table, the column list and the VALUES groups.
\* A group is the keyword DEFAULT in parentheses, or a list of placeholders
\* and NULLs, one per column.
InsertStatement(table, cols, groups) == [table |-> table, cols |-> cols, groups |-> groups]

\* The parameter bound to a placeholder of column col.
Param(col) == IF col = "id" THEN PyInt(9) ELSE PyStr(col)

\* InsertQuery._values: one tuple per parenthesis of VALUES.
_values(stmt) ==
    [i \in DOMAIN stmt.groups |->
        CASE stmt.groups[i] = "DEFAULT" -> <<DEFAULT>>
          [] stmt.groups[i] = "NULLS" -> [k \in DOMAIN stmt.cols |-> None]
          [] OTHER -> [k \in DOMAIN stmt.cols |-> Param(stmt.cols[k])]]

\* What the store lists as its collections.
CollectionNames(store, sch) ==
    DOMAIN store \cup (IF DOMAIN sch # {} THEN {"__schema__"} ELSE {})

\* The collection cache as a membership test for item leaves it: the test
\* validates existence, so a name the cache misses is looked up among the
\* store's collections, which the cache then holds.
Reloaded(cached, item, names) == IF item \in cached THEN cached ELSE cached \cup names

\* A _table that registers the table whatever enforce_schema says.
TableAlwaysRegistered(stmt, cached, enforce) ==
    [exc |-> "none", cached |-> cached \cup {stmt.table}]

\* InsertQuery._table: the failure it raises and cached_collections after it;
\* cached is the cache as the membership test leaves it.
_table(stmt, cached, enforce) ==
    IF stmt.table \notin cached
    THEN IF enforce THEN [exc |-> "MigrationError", cached |-> cached]
         ELSE [exc |-> "none", cached |-> cached \cup {stmt.table}]
    ELSE [exc |-> "none", cached |-> cached]

Min(a, b) == IF a < b THEN a ELSE b
SeqRange(s) == {s[i] : i \in DOMAIN s}

\* The first row takes the counter's new value.
SeqValueOffByOne(auto, num, i) == auto.seq - i + 1

\* The sequence value of row i (1-based here, so seq - num + (i - 1) + 1).
SeqValue(auto, num, i) == auto.seq - num + i

\* A row that names an autoincrement column always keeps what it supplied.
InsertDocKeepDefault(cols, val, auto, num, i) ==
    LET names == IF auto # None THEN SeqRange(auto.field_names) ELSE {}
        zipped == {k \in 1..Min(Len(cols), Len(val)) : TRUE}
        Last(f) == CHOOSE k \in zipped : cols[k] = f /\ \A j \in zipped : cols[j] = f => j <= k
    IN  [f \in names \cup {cols[k] : k \in zipped} |->
            IF \E k \in zipped : cols[k] = f THEN val[Last(f)]
            ELSE PyInt(SeqValue(auto, num, i))]

\* The document InsertQuery.execute builds for row i: the autoincrement
\* fields first, then every zipped (column, value) pair except a DEFAULT
\* given for an autoincrement field.
InsertDoc(cols, val, auto, num, i) ==
    LET names == IF auto # None THEN SeqRange(auto.field_names) ELSE {}
        zipped == {k \in 1..Min(Len(cols), Len(val)) :
                      ~(auto # None /\ cols[k] \in names /\ val[k] = DEFAULT)}
        Last(f) == CHOOSE k \in zipped : cols[k] = f /\ \A j \in zipped : cols[j] = f => j <= k
    IN  [f \in names \cup {cols[k] : k \in zipped} |->
            IF \E k \in zipped : cols[k] = f THEN val[Last(f)]
            ELSE PyInt(SeqValue(auto, num, i))]

\* Rows numbered from the counter's value before the increment.
InsertDocsFromOld(cols, vals, auto) ==
    [i \in DOMAIN vals |-> InsertDoc(cols, vals[i], auto, Len(vals) + 1, i)]

\* docs of InsertQuery.execute
InsertDocs(cols, vals, auto) ==
    [i \in DOMAIN vals |-> InsertDoc(cols, vals[i], auto, Len(vals), i)]

\* Whether the driver can encode the document: InsertQuery.DEFAULT is a bare
\* object(), which has no BSON form.
Encodable(d) == \A f \in DOMAIN d : d[f] # DEFAULT

\* db[table].insert_many(docs, ordered=False): the collection is created on
\* the first insert; nothing is sent when a document cannot be encoded.
insert_many(store, table, docs) ==
    IF \E i \in DOMAIN docs : ~Encodable(docs[i])
    THEN [exc |-> "InvalidDocument", db |-> store]
    ELSE [exc |-> "none",
          db |-> IF table \in DOMAIN store
                 THEN [store EXCEPT ![table].docs = @ \o docs]
                 ELSE [tb \in DOMAIN store \cup {table} |->
                          IF tb = table THEN Collection(docs, {}) ELSE store[tb]]]

\* res.inserted_ids[-1]: the identifier the driver gave the last document.
ObjectId(d) == [type |-> "ObjectId", of |-> d]

\* last_row_id always taken from the identifiers the store returns.
LastRowIdOfStore(auto, docs) == ObjectId(docs[Len(docs)])

\* self._result_ref.last_row_id after a successful insert_many.
LastRowId(auto, docs) ==
    IF auto # None THEN PyInt(auto.seq) ELSE ObjectId(docs[Len(docs)])

---------------------------------------------------------------------------
(* Concurrent INSERT statements: each caller runs Query._insert, that is   *)
(* InsertQuery(...) and then execute(), whose two store calls are atomic   *)
(* each and interleave with the other callers' calls.                      *)

Procs == 1..MaxProcs

GroupKinds == {"DEFAULT", "NULLS", "PARAMS"}
InsertColumnLists == {<<"id">>, <<"a">>, <<"id", "a">>}
InsertStatements ==
    {InsertStatement(LeftTable, cols, groups) :
        cols \in InsertColumnLists, groups \in SeqsUpTo(GroupKinds, MaxRows) \ {<<>>}}

\* INSERT INTO t (id) VALUES (DEFAULT), ..., (DEFAULT)
DefaultInserts ==
    {InsertStatement(LeftTable, <<"id">>, [i \in 1..n |-> "DEFAULT"]) : n \in 1..MaxRows}

\* An InsertQuery before parse(): InsertQuery.__init__ and BaseQuery.__init__.
\* before is the counter value the store held when find_one_and_update ran.
InsertQuery_init(stmt) ==
    [pc |-> "new", statement |-> stmt, left_table |-> None, _cols |-> None,
     _vals |-> None, _cursor |-> None, auto |-> Unset, before |-> 0, docs |-> <<>>,
     last_row_id |-> None, exc |-> "none"]

\* The metadata documents the table can have when the statements start.
InitialSchemas ==
    {[tb \in {LeftTable} |-> SchemaDoc([c \in {"id", "a"} |-> "int"], Auto(seq, names))] :
        seq \in 0..MaxSeq, names \in {<<"id">>, <<"id", "a">>}}
    \cup {[tb \in {LeftTable} |-> SchemaDoc([c \in {"id", "a"} |-> "int"], None)]}
    \cup {[tb \in {} |-> None]}

\* The variables of a single Query object, unused while INSERTs interleave.
QueryIdle ==
    /\ sql = None /\ _sql = Unset /\ fault = None /\ _query = Unset
    /\ _result_generator = None
    /\ last_row_id = None /\ raised = "none" /\ called = "nothing"
    /\ row = None /\ doc = None /\ counted = None /\ store_calls = <<>>

QueryUnchanged ==
    UNCHANGED <<sql, _sql, fault, _query, _result_generator, last_row_id, raised, called,
                row, doc, counted, store_calls>>

\* A caller that submits nothing.
NoInsert == [InsertQuery_init(None) EXCEPT !.pc = "idle"]

InsertStoreInit ==
    /\ QueryIdle
    /\ enforce_schema \in BOOLEAN
    /\ cached_collections \in {{"__schema__", LeftTable}, {"__schema__"}}
    /\ schema \in InitialSchemas
    /\ db \in {[tb \in {LeftTable} |-> Collection(<<>>, {})], [tb \in {} |-> None]}

\* One caller with any INSERT statement.
InitInsert ==
    /\ InsertStoreInit
    /\ \E first \in InsertStatements :
         ins = [p \in Procs |-> IF p = 1 THEN InsertQuery_init(first) ELSE NoInsert]

\* Every caller inserting one or more DEFAULT rows into the same table.
InitConcurrent ==
    /\ InsertStoreInit
    /\ \E stmts \in [Procs -> DefaultInserts] :
         ins = [p \in Procs |-> InsertQuery_init(stmts[p])]

\* InsertQuery.parse: _table, _columns, _values.
InsertParse(p) ==
    /\ ins[p].pc = "new"
    /\ LET stmt == ins[p].statement
           t == _table(stmt,
                       Reloaded(cached_collections, stmt.table, CollectionNames(db, schema)),
                       enforce_schema)
       IN  /\ cached_collections' = t.cached
           /\ ins' = [ins EXCEPT ![p] =
                        IF t.exc # "none" THEN [@ EXCEPT !.pc = "failed", !.exc = t.exc]
                        ELSE [@ EXCEPT !.pc = "parsed",
                                       !.left_table = PyStr(stmt.table),
                                       !._cols = stmt.cols,
                                       !._vals = _values(stmt)]]
    /\ UNCHANGED <<enforce_schema, db, schema>>
    /\ QueryUnchanged

\* InsertQuery.execute, first store call: the counter increment.
InsertFindOneAndUpdate(p) ==
    /\ ins[p].pc = "parsed"
    /\ LET name == ins[p].left_table.value
           r == FindOneAndUpdate(schema, name, Len(ins[p]._vals))
       IN  /\ schema' = r.schema
           /\ ins' = [ins EXCEPT ![p].pc = "reserved",
                                 ![p].auto = r.auto,
                                 ![p].before =
                                     IF r.auto # None THEN schema[name].auto.seq ELSE 0]
    /\ UNCHANGED <<enforce_schema, cached_collections, db>>
    /\ QueryUnchanged

\* InsertQuery.execute, the rest: the documents, insert_many, last_row_id.
InsertMany(p) ==
    /\ ins[p].pc = "reserved"
    /\ LET docs == InsertDocs(ins[p]._cols, ins[p]._vals, ins[p].auto)
           r == insert_many(db, ins[p].left_table.value, docs)
       IN  /\ db' = r.db
           /\ ins' = [ins EXCEPT ![p] =
                        IF r.exc # "none"
                        THEN [@ EXCEPT !.pc = "failed", !.docs = docs, !.exc = r.exc]
                        ELSE [@ EXCEPT !.pc = "done", !.docs = docs,
                                       !.last_row_id = LastRowId(ins[p].auto, docs)]]
    /\ UNCHANGED <<enforce_schema, cached_collections, schema>>
    /\ QueryUnchanged

NextInsert == \E p \in Procs : InsertParse(p) \/ InsertFindOneAndUpdate(p) \/ InsertMany(p)

SpecInsert == InitInsert /\ [][NextInsert]_vars

SpecConcurrent == InitConcurrent /\ [][NextInsert]_vars

---------------------------------------------------------------------------
(* Properties of INSERT *)

\* The callers whose find_one_and_update found autoincrement metadata.
Reserving == {p \in Procs : ins[p].pc \in {"reserved", "done", "failed"}
                            /\ ins[p].auto \notin {Unset, None}}

\* Whether row i of the statement gives a concrete value (a parameter or
\* NULL) for column f.
SuppliesConcrete(stmt, i, f) == stmt.groups[i] # "DEFAULT" /\ f \in SeqRange(stmt.cols)

\* C3: an INSERT of N rows into a table with an autoincrement column moves
\* the counter from its old value to old + N in the one find_one_and_update
\* call, and row i (0-based) is assigned new - N + i + 1: the first row
\* old + 1, the last row the new counter value, each row one more than the
\* row before it.
C3_SequenceBlock ==
    \A p \in Reserving :
        LET q == ins[p]
            N == Len(q._vals)
            new == q.auto.seq
            Assigned(i) == q.docs[i + 1][q.auto.field_names[1]].value
            unsupplied == {i \in 0..(N - 1) :
                             ~SuppliesConcrete(q.statement, i + 1, q.auto.field_names[1])}
        IN  /\ new = q.before + N
            /\ q.docs # <<>> =>
                 /\ Len(q.docs) = N
                 /\ \A i \in unsupplied : Assigned(i) = new - N + i + 1
                 /\ 0 \in unsupplied => Assigned(0) = q.before + 1
                 /\ (N - 1) \in unsupplied => Assigned(N - 1) = new
                 /\ \A i, j \in unsupplied : i + 1 = j => Assigned(j) = Assigned(i) + 1

\* C3 witness: at least two DEFAULT rows inserted into a table whose counter
\* was not 0.
C3_Witness ==
    \E p \in Procs :
        /\ ins[p].pc = "done" /\ p \in Reserving /\ ins[p].before > 0
        /\ Len(ins[p]._vals) >= 2
        /\ \A i \in DOMAIN ins[p].statement.groups : ins[p].statement.groups[i] = "DEFAULT"

\* The sequence values reserved for the rows of caller p's statement.
ReservedValues(p) ==
    {SeqValue(ins[p].auto, Len(ins[p]._vals), i) : i \in 1..Len(ins[p]._vals)}

\* C4: whatever the interleaving, two INSERT statements into the same
\* autoincrement table never hold a sequence value in common.
C4_DisjointRanges ==
    \A p, q \in Reserving :
        (p # q /\ ins[p].left_table = ins[q].left_table)
            => ReservedValues(p) \cap ReservedValues(q) = {}

\* C4 witness: two statements interleaved, the one that reserved its block
\* first inserting its rows last.
C4_Witness ==
    \E p, q \in Reserving :
        /\ p # q /\ ins[p].pc = "reserved" /\ ins[q].pc = "done"
        /\ ins[p].before < ins[q].before
        /\ Len(ins[p]._vals) # Len(ins[q]._vals)

\* C5: for every autoincrement field and every row of an INSERT into a table
\* with autoincrement metadata, the document holds the row's sequence value
\* when the row gave DEFAULT for the field or did not name it, and the value
\* the row gave otherwise; the counter advances by the full row count either
\* way; the documents are stored as built; no stored document holds the
\* DEFAULT sentinel.
C5_DefaultTakesSequence ==
    /\ \A p \in Reserving :
        LET q == ins[p]
            N == Len(q._vals)
        IN  /\ q.auto.seq = q.before + N
            /\ q.docs # <<>> =>
                 \A i \in 1..N : \A k \in DOMAIN q.auto.field_names :
                    LET f == q.auto.field_names[k]
                    IN  q.docs[i][f] =
                            IF SuppliesConcrete(q.statement, i, f)
                            THEN (IF q.statement.groups[i] = "NULLS" THEN None ELSE Param(f))
                            ELSE PyInt(q.before + i)
            /\ q.pc = "done" =>
                 \A i \in 1..N : \E j \in DOMAIN db[q.left_table.value].docs :
                    db[q.left_table.value].docs[j] = q.docs[i]
    /\ \A tb \in DOMAIN db : \A j \in DOMAIN db[tb].docs :
          \A f \in DOMAIN db[tb].docs[j] : db[tb].docs[j][f] # DEFAULT

\* C5 witness: INSERT INTO t (id) VALUES (DEFAULT), (%s) stored one row with
\* its sequence value and one with the parameter, and used two slots.
C5_Witness ==
    \E p \in Procs :
        /\ ins[p].pc = "done" /\ p \in Reserving
        /\ ins[p].statement.cols = <<"id">>
        /\ ins[p].statement.groups = <<"DEFAULT", "PARAMS">>
        /\ ins[p].docs[1]["id"] = PyInt(ins[p].before + 1)
        /\ ins[p].docs[2]["id"] = Param("id")
        /\ ins[p].auto.seq = ins[p].before + 2

---------------------------------------------------------------------------
(* UpdateQuery, DeleteQuery, AlterQuery and the DDL handlers of Query *)

\* What a Query handler works on and leaves behind: the store, the
\* connection's collection cache, the store calls issued and last_row_id.
World(store, sch, cached, calls, rowid) ==
    [db |-> store, schema |-> sch, cached |-> cached, calls |-> calls, last_row_id |-> rowid]

\* What a handler of Query.FUNC_MAP ends with: the exception it raises, the
\* compiler it returns (None when it returns nothing) and the world after it.
Outcome(exc, query, w) == [exc |-> exc, query |-> query, w |-> w]

\* A WHERE of the form column = value, as WhereConverter.to_mongo() gives it
\* to update_many and delete_many; None when the statement has no WHERE.
Filter(column, value) == [type |-> "filter", column |-> column, value |-> value]
Matches(d, where) ==
    where = None \/ (where.column \in DOMAIN d /\ d[where.column] = where.value)

SetField(d, f, v) == [g \in DOMAIN d \cup {f} |-> IF g = f THEN v ELSE d[g]]
\* An $unset that leaves the field where it is.
KeepField(d, f) == d

UnsetField(d, f) == [g \in DOMAIN d \ {f} |-> d[g]]
DocsOf(store, table) == IF table \in DOMAIN store THEN store[table].docs ELSE <<>>
CountMatching(docs, where) == Cardinality({i \in DOMAIN docs : Matches(docs[i], where)})

\* db[table].update_many(filter, {'$set': {column: value}})
update_many(store, table, where, set) ==
    [db |-> IF table \in DOMAIN store
            THEN [store EXCEPT ![table].docs =
                    [i \in DOMAIN @ |-> IF Matches(@[i], where)
                                        THEN SetField(@[i], set.column, set.value)
                                        ELSE @[i]]]
            ELSE store,
     matched_count |-> CountMatching(DocsOf(store, table), where),
     modified_count |->
        Cardinality({i \in DOMAIN DocsOf(store, table) :
                        /\ Matches(DocsOf(store, table)[i], where)
                        /\ SetField(DocsOf(store, table)[i], set.column, set.value)
                             # DocsOf(store, table)[i]})]

\* A delete that removes the first matching document only.
DeleteFirst(store, table, where) ==
    LET docs == DocsOf(store, table)
        hits == {i \in DOMAIN docs : Matches(docs[i], where)}
        first == IF hits = {} THEN 0 ELSE CHOOSE i \in hits : \A j \in hits : i <= j
    IN  [db |-> IF table \in DOMAIN store /\ first # 0
                THEN [store EXCEPT ![table].docs =
                        SubSeq(docs, 1, first - 1) \o SubSeq(docs, first + 1, Len(docs))]
                ELSE store,
         deleted_count |-> IF first = 0 THEN 0 ELSE 1]

\* db[table].delete_many(filter)
delete_many(store, table, where) ==
    LET Keep(d) == ~Matches(d, where)
    IN  [db |-> IF table \in DOMAIN store
                THEN [store EXCEPT ![table].docs = SelectSeq(@, Keep)]
                ELSE store,
         deleted_count |-> CountMatching(DocsOf(store, table), where)]

\* One more store call in the log.
Issue(w, op, table) == [w EXCEPT !.calls = Append(@, Call(op, table, <<>>, {}))]

\* self.kwargs of UpdateQuery.parse: the filter only under "if self.where".
UpdateKwargs(stmt) == (IF Truthy(stmt.where) THEN {"filter"} ELSE {}) \cup {"update"}

\* self.kw of DeleteQuery.parse: {'filter': {}}, replaced by the WHERE's.
DeleteKwargs(stmt) == {"filter"} \cup (IF Truthy(stmt.where) THEN {"filter"} ELSE {})

\* update_many(filter, update, ...) and delete_many(filter, ...) called with
\* **kwargs: Python raises TypeError when a parameter that has no default
\* gets no argument, before the driver does anything.
MissingArgument(op, kwargs) ==
    IF op = "update_many" THEN ~({"filter", "update"} \subseteq kwargs)
    ELSE ~({"filter"} \subseteq kwargs)

\* Query._update: UpdateQuery(...) and execute().
_update(stmt, w) ==
    IF fault.at = "converter" THEN Outcome(fault.kind, Unset, w)
    ELSE IF MissingArgument("update_many", UpdateKwargs(stmt))
         THEN Outcome("TypeError", Unset, w)
    ELSE IF fault.at = "store" THEN Outcome(fault.kind, Unset, Issue(w, "update_many", stmt.table))
    ELSE LET r == update_many(w.db, stmt.table, stmt.where, stmt.set)
         IN  Outcome("none",
                     [type |-> "UpdateQuery", left_table |-> PyStr(stmt.table),
                      _cursor |-> None,
                      result |-> [matched_count |-> r.matched_count,
                                  modified_count |-> r.modified_count]],
                     [Issue(w, "update_many", stmt.table) EXCEPT !.db = r.db])

\* Query._delete: DeleteQuery(...) and execute().
_delete(stmt, w) ==
    IF fault.at = "converter" THEN Outcome(fault.kind, Unset, w)
    ELSE IF MissingArgument("delete_many", DeleteKwargs(stmt))
         THEN Outcome("TypeError", Unset, w)
    ELSE IF fault.at = "store" THEN Outcome(fault.kind, Unset, Issue(w, "delete_many", stmt.table))
    ELSE LET r == delete_many(w.db, stmt.table, stmt.where)
         IN  Outcome("none",
                     [type |-> "DeleteQuery", left_table |-> PyStr(stmt.table),
                      _cursor |-> None,
                      result |-> [deleted_count |-> r.deleted_count]],
                     [Issue(w, "delete_many", stmt.table) EXCEPT !.db = r.db])

\* Query._insert: InsertQuery(...) and execute(). written is how many of the
\* documents an insert_many that fails at the store had written before.
_insert(stmt, w, enforce, written) ==
    LET t == _table(stmt, Reloaded(w.cached, stmt.table, CollectionNames(w.db, w.schema)),
                    enforce)
        w1 == [w EXCEPT !.cached = t.cached]
        vals == _values(stmt)
        r == FindOneAndUpdate(w1.schema, stmt.table, Len(vals))
        w2 == [Issue(w1, "find_one_and_update", "__schema__") EXCEPT !.schema = r.schema]
        docs == InsertDocs(stmt.cols, vals, r.auto)
        w3 == Issue(w2, "insert_many", stmt.table)
        done == insert_many(w2.db, stmt.table, docs)
        part == IF Min(written, Len(docs) - 1) = 0 THEN [db |-> w2.db]
                ELSE insert_many(w2.db, stmt.table, SubSeq(docs, 1, Min(written, Len(docs) - 1)))
    IN  IF t.exc # "none" THEN Outcome(t.exc, Unset, w)
        ELSE IF fault.at = "converter" THEN Outcome(fault.kind, Unset, w1)
        ELSE IF fault.at = "store"
             THEN Outcome(fault.kind, Unset, Issue(w1, "find_one_and_update", "__schema__"))
        ELSE IF done.exc # "none" THEN Outcome(done.exc, Unset, w3)
        ELSE IF fault.at = "insert_many"
             THEN Outcome(fault.kind, Unset, [w3 EXCEPT !.db = part.db])
        ELSE Outcome("none",
                     [type |-> "InsertQuery", left_table |-> PyStr(stmt.table),
                      _cursor |-> None, _cols |-> stmt.cols, _vals |-> vals],
                     [w3 EXCEPT !.db = done.db, !.last_row_id = LastRowId(r.auto, docs)])

\* A column of CREATE TABLE: its name, its type and the keywords found in
\* its definition.
ColumnDef(field, type_code, autoincrement, primary_key, unique) ==
    [field |-> field, type_code |-> type_code, autoincrement |-> autoincrement,
     primary_key |-> primary_key, unique |-> unique]

\* The metadata document after the upsert of CREATE TABLE: $set of every
\* fields.<col> and of auto.seq = 0, $push of the autoincrement field names.
CreateUpsert(sch, table, columns) ==
    LET old == IF table \in DOMAIN sch THEN sch[table] ELSE SchemaDoc(<<>>, None)
        declared == {columns[i].field : i \in DOMAIN columns}
        TypeOf(f) == columns[CHOOSE i \in DOMAIN columns :
                        columns[i].field = f
                        /\ \A j \in DOMAIN columns : columns[j].field = f => j <= i].type_code
        IsAuto(c) == c.autoincrement /\ c.field # "_id"
        autos == SelectSeq(columns, IsAuto)
        names == [i \in DOMAIN autos |-> autos[i].field]
        meta == SchemaDoc(
                 [f \in DOMAIN old.fields \cup declared |->
                     IF f \in declared THEN TypeOf(f) ELSE old.fields[f]],
                 IF autos = <<>> THEN old.auto
                 ELSE Auto(0, (IF old.auto = None THEN <<>> ELSE old.auto.field_names)
                              \o names))
    IN  [tb \in DOMAIN sch \cup {table} |-> IF tb = table THEN meta ELSE sch[tb]]

\* The indexes CREATE TABLE creates for PRIMARY KEY and UNIQUE columns.
CreateIndexes(columns) ==
    {"__primary_key__" : i \in {j \in DOMAIN columns :
        columns[j].primary_key /\ columns[j].field # "_id"}}
    \cup {columns[i].field : i \in {j \in DOMAIN columns :
        columns[j].unique /\ columns[j].field # "_id"}}

\* A create_collection that takes every name as new.
CollectionExistsNever(store, table) == FALSE

\* db.create_collection(table) raises CollectionInvalid when the collection
\* exists.
CollectionExists(store, table) == table \in DOMAIN store

\* Query._create
_create(stmt, w, enforce) ==
    LET w0 == [w EXCEPT !.cached = Reloaded(@, "__schema__", CollectionNames(w.db, w.schema))]
        w1 == IF "__schema__" \notin w0.cached
              THEN [Issue(w0, "create_collection", "__schema__")
                       EXCEPT !.cached = @ \cup {"__schema__"}]
              ELSE w0
        w2 == Issue(w1, "create_collection", stmt.table)
        w3 == [Issue(w2, "update_one", "__schema__") EXCEPT
                  !.db = [tb \in DOMAIN @ \cup {stmt.table} |->
                            IF tb = stmt.table
                            THEN Collection(<<>>, CreateIndexes(stmt.columns))
                            ELSE @[tb]],
                  !.schema = CreateUpsert(@, stmt.table, stmt.columns)]
    IN  IF stmt.what = "TABLE"
        THEN IF fault.at = "store" THEN Outcome(fault.kind, None, w2)
             ELSE IF CollectionExists(w.db, stmt.table)
                  THEN IF enforce THEN Outcome("CollectionInvalid", None, w2)
                       ELSE Outcome("none", None, w2)
             ELSE Outcome("none", None, w3)
        ELSE Outcome("none", None, w)

\* A DROP TABLE that also deletes the table's metadata document.
DropWithMetadata(stmt, w) ==
    CASE stmt.what = "DATABASE" ->
            IF fault.at = "store" THEN Outcome(fault.kind, None, Issue(w, "drop_database", ""))
            ELSE Outcome("none", None,
                         [Issue(w, "drop_database", "") EXCEPT
                             !.db = [tb \in {} |-> None], !.schema = [tb \in {} |-> None]])
      [] stmt.what = "TABLE" ->
            IF fault.at = "store"
            THEN Outcome(fault.kind, None, Issue(w, "drop_collection", stmt.table))
            ELSE Outcome("none", None,
                         [Issue(w, "drop_collection", stmt.table) EXCEPT
                             !.db = [tb \in DOMAIN @ \ {stmt.table} |-> @[tb]],
                             !.schema = [tb \in DOMAIN @ \ {stmt.table} |-> @[tb]]])
      [] stmt.what = "INDEX" -> Outcome("UnboundLocalError", None, w)
      [] OTHER -> Outcome("SQLDecodeError(raw)", None, w)

\* Query._drop
_drop(stmt, w) ==
    CASE stmt.what = "DATABASE" ->
            IF fault.at = "store" THEN Outcome(fault.kind, None, Issue(w, "drop_database", ""))
            ELSE Outcome("none", None,
                         [Issue(w, "drop_database", "") EXCEPT
                             !.db = [tb \in {} |-> None], !.schema = [tb \in {} |-> None]])
      [] stmt.what = "TABLE" ->
            IF fault.at = "store"
            THEN Outcome(fault.kind, None, Issue(w, "drop_collection", stmt.table))
            ELSE Outcome("none", None,
                         [Issue(w, "drop_collection", stmt.table) EXCEPT
                             !.db = [tb \in DOMAIN @ \ {stmt.table} |-> @[tb]]])
      [] stmt.what = "INDEX" -> Outcome("UnboundLocalError", None, w)
      [] OTHER -> Outcome("SQLDecodeError(raw)", None, w)

\* AlterQuery.parse: the execute method the sub-clause selects, or the
\* exception parse raises.
AlterParse(stmt) ==
    CASE stmt.clause = "FLUSH" -> [exc |-> "none", execute |-> "_flush"]
      [] stmt.clause = "DROP COLUMN" -> [exc |-> "none", execute |-> "_drop_column"]
      [] stmt.clause = "DROP CONSTRAINT" -> [exc |-> "none", execute |-> "execute"]
      [] stmt.clause = "ALTER COLUMN" -> [exc |-> "none", execute |-> "lambda"]
      [] stmt.clause = "ADD CONSTRAINT" -> [exc |-> "none", execute |-> "_fk"]
      [] stmt.clause = "ADD COLUMN" -> [exc |-> "none", execute |-> "_add_column"]
      [] stmt.clause = "RENAME" -> [exc |-> "none", execute |-> "_rename_collection"]
      [] OTHER -> [exc |-> "NotImplementedError", execute |-> "execute"]

\* A back-fill that skips the documents holding null for the column.
AddColumnWhereMissing(store, sch, table, column, type_code, default) ==
    [db |-> IF table \in DOMAIN store
            THEN [store EXCEPT ![table].docs =
                    [i \in DOMAIN @ |->
                        IF column \notin DOMAIN @[i] THEN SetField(@[i], column, default)
                        ELSE @[i]]]
            ELSE store,
     schema |-> IF table \in DOMAIN sch
                THEN [sch EXCEPT ![table].fields = SetField(@, column, type_code)]
                ELSE sch]

\* AlterQuery._add_column: $set of the default on every document where the
\* field does not exist or is null, then $set of fields.<column> on the
\* table's metadata document, if there is one (no upsert).
_add_column(store, sch, table, column, type_code, default) ==
    [db |-> IF table \in DOMAIN store
            THEN [store EXCEPT ![table].docs =
                    [i \in DOMAIN @ |->
                        IF column \notin DOMAIN @[i] THEN SetField(@[i], column, default)
                        ELSE IF @[i][column] = None THEN SetField(@[i], column, default)
                        ELSE @[i]]]
            ELSE store,
     schema |-> IF table \in DOMAIN sch
                THEN [sch EXCEPT ![table].fields = SetField(@, column, type_code)]
                ELSE sch]

\* Query._alter: AlterQuery(...) with NotImplementedError logged, else
\* query.execute().
_alter(stmt, w) ==
    LET parsed == AlterParse(stmt)
        query == [type |-> "AlterQuery", left_table |-> PyStr(stmt.table),
                  _cursor |-> None, _iden_name |-> stmt.column]
        flushed == delete_many(w.db, stmt.table, None).db
        dropped == IF stmt.table \in DOMAIN w.db
                   THEN [w.db EXCEPT ![stmt.table].docs =
                            [i \in DOMAIN @ |-> UnsetField(@[i], stmt.column)]]
                   ELSE w.db
        unset == IF stmt.table \in DOMAIN w.schema
                 THEN [w.schema EXCEPT ![stmt.table].fields = UnsetField(@, stmt.column)]
                 ELSE w.schema
        added == _add_column(w.db, w.schema, stmt.table, stmt.column, stmt.type_code,
                             stmt.default)
    IN  IF fault.at = "converter" THEN Outcome(fault.kind, Unset, w)
        ELSE IF parsed.exc = "NotImplementedError" THEN Outcome("none", None, w)
        ELSE CASE parsed.execute = "_flush" ->
                    IF fault.at = "store"
                    THEN Outcome(fault.kind, Unset, Issue(w, "delete_many", stmt.table))
                    ELSE Outcome("none", query,
                                 [Issue(w, "delete_many", stmt.table) EXCEPT !.db = flushed])
               [] parsed.execute = "_drop_column" ->
                    IF fault.at = "store"
                    THEN Outcome(fault.kind, Unset, Issue(w, "update", stmt.table))
                    ELSE Outcome("none", query,
                                 [Issue(Issue(w, "update", stmt.table), "update", "__schema__")
                                     EXCEPT !.db = dropped, !.schema = unset])
               [] parsed.execute = "_add_column" ->
                    IF fault.at = "store"
                    THEN Outcome(fault.kind, Unset, Issue(w, "update", stmt.table))
                    ELSE Outcome("none", query,
                                 [Issue(Issue(w, "update", stmt.table), "update", "__schema__")
                                     EXCEPT !.db = added.db, !.schema = added.schema])
               [] parsed.execute = "_rename_collection" ->
                    IF fault.at = "store"
                    THEN Outcome(fault.kind, Unset, Issue(w, "rename", stmt.table))
                    ELSE IF stmt.table \notin DOMAIN w.db \/ stmt.new_name \in DOMAIN w.db
                         THEN Outcome("OperationFailure", Unset, Issue(w, "rename", stmt.table))
                    ELSE Outcome("none", query,
                                 [Issue(w, "rename", stmt.table) EXCEPT
                                     !.db = [tb \in (DOMAIN @ \ {stmt.table})
                                                    \cup {stmt.new_name} |->
                                               IF tb = stmt.new_name THEN @[stmt.table]
                                               ELSE @[tb]]])
               [] parsed.execute = "lambda" -> Outcome("none", query, w)
               [] parsed.execute = "_fk" -> Outcome("none", query, w)
               [] OTHER -> Outcome("NotImplementedError", Unset, w)

---------------------------------------------------------------------------
(* Query: the dispatcher and the caller's operations on it *)

NoFault == [at |-> "none", kind |-> "none"]

\* A failure of a collaborator: a clause converter raising while a compiler
\* parses ("converter") or builds the read call ("to_mongo"), the store
\* driver raising on a call ("store"), on insert_many alone ("insert_many")
\* or while a cursor is read or counted ("next").
Faults ==
    {NoFault}
    \cup {[at |-> a, kind |-> k] : a \in {"converter", "to_mongo"},
                                   k \in {"MigrationError", "KeyError"}}
    \cup {[at |-> a, kind |-> k] : a \in {"store", "insert_many", "next"},
                                   k \in {"OperationFailure", "AutoReconnect"}}

\* A _param_index that formats the next index and forgets to count.
ParamIndexNotCounting(count) ==
    [count |-> count, repl |-> "%(" \o ToString(count + 1) \o ")s"]

\* Query._param_index: the counter goes up by one and the marker becomes the
\* keyed reference '%(n)s' of the new count.
_param_index(count) ==
    [count |-> count + 1, repl |-> "%(" \o ToString(count + 1) \o ")s"]

\* re.sub(r'%s', self._param_index, sql): the text is scanned from the left,
\* every '%s' is replaced by what _param_index returns for it, the scan goes
\* on behind the marker, and every other character is copied.  The result
\* is the sequence of copied characters and keyed references.
RECURSIVE sub(_, _)
sub(string, count) ==
    IF string = <<>> THEN [string |-> <<>>, count |-> count]
    ELSE IF Len(string) >= 2 /\ string[1] = "%" /\ string[2] = "s"
    THEN LET m == _param_index(count)
             rest == sub(SubSeq(string, 3, Len(string)), m.count)
         IN [string |-> <<m.repl>> \o rest.string, count |-> rest.count]
    ELSE LET rest == sub(Tail(string), count)
         IN [string |-> <<Head(string)>> \o rest.string, count |-> rest.count]

\* The keys of Query.FUNC_MAP.
FUNC_MAP == {"SELECT", "UPDATE", "INSERT", "DELETE", "CREATE", "DROP", "ALTER"}

\* Every statement count is let through.
TooManyStatementsNever(n) == FALSE

\* if len(statement) > 1
TooManyStatements(n) == n > 1

\* The except clauses around the handler call in Query.parse.
ParseWrap(exc) ==
    CASE exc = "none" -> "none"
      [] exc = "MigrationError" -> "MigrationError"
      [] OTHER -> "SQLDecodeError"

\* The KeyError of the FUNC_MAP lookup handled like a handler's failure.
UnknownTypeWrapped == ParseWrap("NotImplementedError")

\* except KeyError: raise NotImplementedError(...)
UnknownType == "NotImplementedError"

\* The except clauses of Query.__iter__.
IterWrap(exc) ==
    CASE exc = "none" -> "none"
      [] exc = "MigrationError" -> "MigrationError"
      [] OTHER -> "SQLDecodeError"

\* The world the statement meets.
Now == World(db, schema, cached_collections, store_calls, last_row_id)

\* Query.__init__ ending with the handler's outcome out: the exception of the
\* handler passes the except clauses of parse, and without one the Query
\* holds the handler's return value.
Constructed(out) ==
    /\ called' = "__init__"
    /\ raised' = ParseWrap(out.exc)
    /\ _query' = IF out.exc = "none" THEN out.query ELSE Unset
    /\ db' = out.w.db
    /\ schema' = out.w.schema
    /\ cached_collections' = out.w.cached
    /\ store_calls' = out.w.calls
    /\ last_row_id' = out.w.last_row_id
    /\ _sql' = IF "text" \in DOMAIN sql THEN sub(sql.text, -1).string ELSE Unset
    /\ UNCHANGED <<sql, enforce_schema, fault, _result_generator, row, doc, counted, ins>>

\* Query.__init__ raising exc before any handler runs.
Rejected(exc) ==
    /\ called' = "__init__"
    /\ raised' = exc
    /\ _sql' = IF "text" \in DOMAIN sql THEN sub(sql.text, -1).string ELSE Unset
    /\ UNCHANGED <<sql, enforce_schema, cached_collections, fault, _query, _result_generator,
                   last_row_id, row, doc, counted, store_calls, db, schema, ins>>

\* Query.parse reached the handler of sm_type.
Dispatched(sm_type) ==
    /\ called = "nothing"
    /\ sql.statements >= 1
    /\ ~TooManyStatements(sql.statements)
    /\ sql.type = sm_type

\* Query(...) on text holding several statements, or none.
QueryStatementCount ==
    /\ called = "nothing"
    /\ \/ TooManyStatements(sql.statements) /\ Rejected("SQLDecodeError(sql)")
       \/ sql.statements = 0 /\ Rejected("IndexError")

\* Query(...) on a statement whose type has no handler.
QueryUnknownType ==
    /\ called = "nothing"
    /\ sql.statements >= 1
    /\ ~TooManyStatements(sql.statements)
    /\ sql.type \notin FUNC_MAP
    /\ Rejected(UnknownType)

\* Query._select
_select(stmt, w) ==
    IF fault.at = "converter" THEN Outcome(fault.kind, Unset, w)
    ELSE Outcome(SelectQuery(stmt).exc, SelectQuery(stmt).q, w)

QuerySelect == Dispatched("SELECT") /\ Constructed(_select(sql.body, Now))
QueryUpdate == Dispatched("UPDATE") /\ Constructed(_update(sql.body, Now))
QueryDelete == Dispatched("DELETE") /\ Constructed(_delete(sql.body, Now))
QueryInsert ==
    /\ Dispatched("INSERT")
    /\ \E written \in 0..MaxRows :
         Constructed(_insert(sql.body, Now, enforce_schema, written))
QueryCreate == Dispatched("CREATE") /\ Constructed(_create(sql.body, Now, enforce_schema))
QueryDrop == Dispatched("DROP") /\ Constructed(_drop(sql.body, Now))
QueryAlter == Dispatched("ALTER") /\ Constructed(_alter(sql.body, Now))

\* The generator Query.__next__ keeps in _result_generator: in the loop over
\* the cursor, suspended after "yield []", or finished.
Generator(state) == [type |-> "generator", state |-> state]

\* Where the generator stands; "new" before the first __next__ created it.
GeneratorState(gen) == IF gen = None THEN "new" ELSE gen.state

\* A find() with no filter, sort, skip or limit reads the collection as it
\* is: its documents in insertion order.
ReadsCollection(call) == call.op = "find" /\ call.kwargs \subseteq {"projection"}

\* The cursor of such a find(): the documents it will hand out, as result
\* documents (no joined sub-documents).
StoredCursor(call, store) ==
    LET found == [i \in DOMAIN DocsOf(store, call.table) |->
                     [top |-> DocsOf(store, call.table)[i], sub |-> <<>>]]
    IN  [type |-> "Cursor", call |-> call, remaining |-> Len(found), matched |-> Len(found),
         fetched |-> FALSE, closed |-> FALSE, docs |-> found]

\* Whether the cursor holds the documents it will hand out.
Stored(cursor) == "docs" \in DOMAIN cursor

\* "if self._cursor is None: self._cursor = self._get_cursor()" of
\* SelectQuery.__iter__ and count: every way it can end.
SelectOpen(q) ==
    IF q._cursor # None THEN {[exc |-> "none", q |-> q, calls |-> <<>>]}
    ELSE IF fault.at = "to_mongo" THEN {[exc |-> fault.kind, q |-> q, calls |-> <<>>]}
    ELSE IF fault.at = "store"
         THEN {[exc |-> fault.kind, q |-> _get_cursor(q).q, calls |-> <<_get_cursor(q).call>>]}
    ELSE IF ReadsCollection(_get_cursor(q).call)
         THEN {[exc |-> "none",
                q |-> [_get_cursor(q).q EXCEPT
                          !._cursor = StoredCursor(_get_cursor(q).call, db)],
                calls |-> <<_get_cursor(q).call>>]}
    ELSE {[exc |-> "none",
           q |-> [_get_cursor(q).q EXCEPT
                     !._cursor = NewCursor(_get_cursor(q).call, nm[1], nm[2])],
           calls |-> <<_get_cursor(q).call>>] :
             nm \in {p \in (0..MaxDocs) \X (0..MaxDocs) : p[1] <= p[2]}}

\* What one resumption of the generator of SelectQuery.__iter__ ends with.
Resumed(exc, q, calls, state, r, d) ==
    [exc |-> exc, q |-> q, calls |-> calls, state |-> state, row |-> r, doc |-> d]

\* The cursor after it handed out one document.
Fetched(q) ==
    IF Stored(q._cursor)
    THEN [q EXCEPT !._cursor.remaining = @ - 1, !._cursor.fetched = TRUE,
                   !._cursor.docs = Tail(@)]
    ELSE [q EXCEPT !._cursor.remaining = @ - 1, !._cursor.fetched = TRUE]

\* The documents the cursor can hand out next.
NextDocs(q) ==
    IF Stored(q._cursor) THEN {Head(q._cursor.docs)} ELSE DocsFor(q, q._cursor.call)

\* SelectQuery.__iter__ resumed by next(): up to its next yield, its return
\* ("StopIteration") or the exception that ends it.
SelectResume(q, gen, enforce) ==
    UNION {
      IF o.exc # "none" THEN {Resumed(o.exc, o.q, o.calls, "finished", None, None)}
      ELSE IF o.q.selected_columns.return_const # None /\ gen = None /\ ~Alive(o.q._cursor)
           THEN {Resumed("none", o.q, o.calls, "after_empty", PyList(<<>>), None)}
      ELSE IF GeneratorState(gen) = "after_empty"
           THEN {Resumed("StopIteration", o.q, o.calls, "finished", None, None)}
      ELSE IF fault.at = "next"
           THEN {Resumed(fault.kind, o.q, o.calls, "finished", None, None)}
      ELSE IF o.q._cursor.remaining = 0
           THEN {Resumed("StopIteration",
                         [o.q EXCEPT !._cursor.fetched = TRUE], o.calls, "finished", None, None)}
      ELSE {IF o.q.selected_columns.return_const # None
            THEN IF "_const" \in DOMAIN d.top
                 THEN Resumed("none", Fetched(o.q), o.calls, "loop", PyTuple(<<d.top["_const"]>>), d)
                 ELSE Resumed("KeyError", Fetched(o.q), o.calls, "finished", None, d)
            ELSE LET a == _align_results(o.q, d, enforce)
                 IN  IF a.exc # "none"
                     THEN Resumed(a.exc, Fetched(o.q), o.calls, "finished", None, d)
                     ELSE Resumed("none", Fetched(o.q), o.calls, "loop", PyTuple(a.row), d) :
            d \in NextDocs(o.q)} :
      o \in SelectOpen(q)}

\* Query.__next__ on a statement with rows to iterate: the generator of
\* Query.__iter__ delegates to SelectQuery.__iter__ and wraps what it raises.
QueryNextSelect ==
    /\ _query.type = "SelectQuery"
    /\ GeneratorState(_result_generator) # "finished"
    /\ \E r \in SelectResume(_query, _result_generator, enforce_schema) :
         /\ _query' = r.q
         /\ store_calls' = store_calls \o r.calls
         /\ _result_generator' = Generator(r.state)
         /\ raised' = IF r.exc = "StopIteration" THEN "StopIteration" ELSE IterWrap(r.exc)
         /\ row' = r.row
         /\ doc' = r.doc
    /\ called' = "__next__"
    /\ UNCHANGED <<sql, _sql, enforce_schema, cached_collections, fault, last_row_id,
                   counted, db, schema, ins>>

\* Query.__next__ with nothing to yield: no compiler (DDL), a compiler whose
\* __iter__ is BaseQuery's empty generator, or a generator that has ended.
QueryNextEmpty ==
    /\ _query # Unset
    /\ (_query.type # "SelectQuery" \/ GeneratorState(_result_generator) = "finished")
    /\ _result_generator' = Generator("finished")
    /\ raised' = "StopIteration"
    /\ row' = None
    /\ doc' = None
    /\ called' = "__next__"
    /\ UNCHANGED <<sql, _sql, enforce_schema, cached_collections, fault, _query,
                   last_row_id, counted, store_calls, db, schema, ins>>

\* What SelectQuery.count ends with.
Counted(exc, q, calls, n) == [exc |-> exc, q |-> q, calls |-> calls, n |-> n]

\* SelectQuery.count: cursor.count() on a find cursor, len(list(cursor)) on
\* an aggregate cursor, which reads the cursor to its end.
SelectCount(q) ==
    UNION {
      IF o.exc # "none" THEN {Counted(o.exc, o.q, o.calls, None)}
      ELSE IF fault.at = "next" THEN {Counted(fault.kind, o.q, o.calls, None)}
      ELSE IF o.q._cursor.type = "Cursor"
           THEN {Counted("none", o.q,
                         o.calls \o <<Call("count", o.q.left_table.value, <<>>, {})>>,
                         PyInt(o.q._cursor.matched))}
           ELSE {Counted("none",
                         [o.q EXCEPT !._cursor.remaining = 0, !._cursor.fetched = TRUE],
                         o.calls, PyInt(o.q._cursor.remaining))} :
      o \in SelectOpen(q)}

\* Query.count(): self._query.count(), with no except clause around it.
QueryCount ==
    /\ _query # Unset
    /\ Len(store_calls) < MaxCalls
    /\ \E r \in (IF _query = None THEN {Counted("AttributeError", _query, <<>>, None)}
                 ELSE CASE _query.type = "SelectQuery" -> SelectCount(_query)
                        [] _query.type = "UpdateQuery" ->
                             {Counted("none", _query, <<>>, PyInt(_query.result.matched_count))}
                        [] _query.type = "DeleteQuery" ->
                             {Counted("none", _query, <<>>, PyInt(_query.result.deleted_count))}
                        [] OTHER -> {Counted("AttributeError", _query, <<>>, None)}) :
         /\ _query' = r.q
         /\ store_calls' = store_calls \o r.calls
         /\ raised' = r.exc
         /\ counted' = r.n
    /\ called' = "count"
    /\ UNCHANGED <<sql, _sql, enforce_schema, cached_collections, fault,
                   _result_generator, last_row_id, row, doc, db, schema, ins>>

\* cursor.close(): the store cursor is released; documents already fetched
\* into the driver's buffer can still be read. Closing a closed cursor does
\* nothing.
CloseCursor(cursor, buffered) ==
    IF cursor.closed THEN cursor
    ELSE IF Stored(cursor)
         THEN [cursor EXCEPT !.closed = TRUE, !.remaining = Min(@, buffered),
                             !.docs = SubSeq(@, 1, Min(Len(@), buffered))]
    ELSE [cursor EXCEPT !.closed = TRUE, !.remaining = Min(@, buffered)]

\* close() that reaches for the cursor's close whatever _cursor holds.
CloseUnguarded(q) == Truthy(q)

\* "if self._query and self._query._cursor" of Query.close
CloseGuard(q) == Truthy(q) /\ Truthy(q._cursor)

\* Query.close()
QueryClose ==
    /\ _query # Unset
    /\ IF CloseGuard(_query)
       THEN IF _query._cursor = None
            THEN raised' = "AttributeError" /\ UNCHANGED _query
            ELSE /\ raised' = "none"
                 /\ \E buffered \in 0..MaxDocs :
                      _query' = [_query EXCEPT !._cursor = CloseCursor(@, buffered)]
       ELSE raised' = "none" /\ UNCHANGED _query
    /\ called' = "close"
    /\ UNCHANGED <<sql, _sql, enforce_schema, cached_collections, fault,
                   _result_generator, last_row_id, row, doc, counted, store_calls, db,
                   schema, ins>>

---------------------------------------------------------------------------
(* The statements a caller submits, and the specifications *)

\* The select lists over the given column lists: plain or DISTINCT, or a
\* single constant "(k) AS x".
SelectLists(tokenLists) ==
    {SelectList(d, None, t) : d \in BOOLEAN, t \in tokenLists}
    \cup {SelectList(FALSE, PyInt(k), <<>>) : k \in 0..MaxConst}

\* The SELECT statements over the given select lists and clause tails; only
\* a statement with a WHERE can hold a nested IN (SELECT ...).
SelectStatements(lists, tails) ==
    {st \in {SelectStatement(l, n, t) : l \in lists, n \in BOOLEAN, t \in tails} :
        st.nested => \E i \in DOMAIN st.tail : st.tail[i] = "WHERE"}

\* sqlparse(sql): how many statements the text holds, and the type and the
\* content of the first.
Parsed(n, sm_type, body) == [statements |-> n, type |-> sm_type, body |-> body]

Where == {None, Filter("a", PyStr("a")), Filter("a", PyStr("b"))}

\* An ALTER TABLE t statement: its sub-clause, the column the sub-clause
\* names, the type and the default of ADD COLUMN, the new name of RENAME TO.
AlterStatement(clause, column) ==
    [table |-> LeftTable, column |-> column, clause |-> clause, type_code |-> "string",
     default |-> PyStr("d"), new_name |-> ForeignTable]

Bodies(sm_type) ==
    CASE sm_type = "SELECT" ->
            SelectStatements(SelectLists({<<SQLToken(LeftTable, "a")>>}),
                             {<<>>, <<"WHERE">>, <<"LIMIT">>, <<"UNION">>})
      [] sm_type = "UPDATE" ->
            {[table |-> LeftTable, where |-> w, set |-> Filter("a", PyStr("b"))] : w \in Where}
      [] sm_type = "DELETE" -> {[table |-> LeftTable, where |-> w] : w \in Where}
      [] sm_type = "INSERT" ->
            {InsertStatement(LeftTable, <<"id", "a">>, [i \in 1..n |-> "PARAMS"]) :
                n \in 1..MaxRows}
            \cup {InsertStatement(LeftTable, <<"a">>, <<"DEFAULT">>)}
      [] sm_type = "CREATE" ->
            {[what |-> k, table |-> LeftTable,
              columns |-> <<ColumnDef("id", "int", TRUE, TRUE, FALSE),
                            ColumnDef("a", "string", FALSE, FALSE, TRUE)>>] :
                k \in {"TABLE", "INDEX"}}
      [] sm_type = "DROP" ->
            {[what |-> k, table |-> LeftTable, index |-> "a", on |-> TRUE] :
                k \in {"DATABASE", "TABLE", "INDEX", "VIEW"}}
            \cup {[what |-> "INDEX", table |-> LeftTable, index |-> "a", on |-> FALSE]}
      [] sm_type = "ALTER" ->
            {AlterStatement(c, "a") :
                c \in {"FLUSH", "DROP COLUMN", "DROP CONSTRAINT", "ALTER COLUMN", "OWNER",
                       "ADD CONSTRAINT", "ADD COLUMN", "RENAME"}}
      [] OTHER -> {None}

\* EXPLAIN stands for the statement types FUNC_MAP has no handler for.
StatementTypes == FUNC_MAP \cup {"EXPLAIN"}

Texts ==
    {Parsed(0, "", None)}
    \cup UNION {{Parsed(n, t, b) : n \in 1..2, b \in Bodies(t)} : t \in StatementTypes}

\* A document of table t as INSERT writes it.
Row(id, a) == [f \in {"id", "a"} |-> IF f = "id" THEN PyInt(id) ELSE PyStr(a)]

\* The store before the statement: no table, or table t holding rows, with
\* its metadata document and its sequence counter.
Stores ==
    {[db |-> [tb \in {} |-> None], schema |-> [tb \in {} |-> None]]}
    \cup {[db |-> [tb \in {LeftTable} |->
                      Collection([i \in 1..n |-> Row(i, IF i = 1 THEN "a" ELSE "b")], {})],
           schema |-> [tb \in {LeftTable} |->
                          SchemaDoc([c \in {"id", "a"} |-> "int"], auto)]] :
              n \in {MaxSeq}, auto \in {None, Auto(MaxSeq, <<"id">>)}}

\* The Query object does not exist yet.
NotConstructed ==
    /\ _sql = Unset /\ _query = Unset /\ _result_generator = None /\ last_row_id = None
    /\ raised = "none" /\ called = "nothing"
    /\ row = None /\ doc = None /\ counted = None /\ store_calls = <<>>
    /\ ins = [p \in Procs |-> NoInsert]

Init ==
    /\ NotConstructed
    /\ sql \in Texts
    /\ fault \in Faults
    /\ enforce_schema \in BOOLEAN
    /\ \E s \in Stores : db = s.db /\ schema = s.schema
    /\ cached_collections \in {{"__schema__", LeftTable}, {}}
    /\ sql.type = "SELECT" =>
           db # <<>> /\ schema[LeftTable].auto = None /\ cached_collections # {}

\* A SELECT statement with any clauses after FROM, in any order.
InitSelect ==
    /\ NotConstructed
    /\ sql \in {Parsed(1, "SELECT", b) :
                  b \in SelectStatements(
                          SelectLists({<<SQLToken(LeftTable, "a")>>, <<SQLFunc("n")>>}),
                          SeqsUpTo(ClauseKeywords, MaxClauses))}
    /\ fault = NoFault
    /\ enforce_schema = FALSE
    /\ \E s \in Stores : s.db # <<>> /\ s.schema[LeftTable].auto = None
                         /\ db = s.db /\ schema = s.schema
    /\ cached_collections = {"__schema__", LeftTable}

\* A SELECT statement with any select list, with and without a join.
InitAlign ==
    /\ NotConstructed
    /\ sql \in {Parsed(1, "SELECT", b) :
                  b \in SelectStatements(SelectLists(SeqsUpTo(ColumnTokens, MaxCols)),
                                         {<<>>, <<"LEFT OUTER JOIN">>})}
    /\ fault = NoFault
    /\ enforce_schema \in BOOLEAN
    /\ \E s \in Stores : s.db # <<>> /\ s.schema[LeftTable].auto = None
                         /\ db = s.db /\ schema = s.schema
    /\ cached_collections = {"__schema__", LeftTable}

Next ==
    \/ QueryStatementCount
    \/ QueryUnknownType
    \/ QuerySelect
    \/ QueryUpdate
    \/ QueryDelete
    \/ QueryInsert
    \/ QueryCreate
    \/ QueryDrop
    \/ QueryAlter
    \/ QueryNextSelect
    \/ QueryNextEmpty
    \/ QueryCount
    \/ QueryClose

NextSelect ==
    \/ QuerySelect
    \/ QueryNextSelect
    \/ QueryNextEmpty

Spec == Init /\ [][Next]_vars

SpecSelect == InitSelect /\ [][NextSelect]_vars

\* A statement text of up to MaxText characters that is no statement of
\* FUNC_MAP; how many statements sqlparse splits it into is sqlparse's
\* business and left open.
InitParams ==
    /\ NotConstructed
    /\ \E string \in SeqsUpTo({"%", "s", "x"}, MaxText), n \in 0..2 :
         sql = [statements |-> n, type |-> "UNKNOWN", body |-> None, text |-> string]
    /\ fault = NoFault
    /\ enforce_schema \in BOOLEAN
    /\ db = <<>> /\ schema = <<>>
    /\ cached_collections = {}

NextParams ==
    \/ QueryStatementCount
    \/ QueryUnknownType

SpecParams == InitParams /\ [][NextParams]_vars

SpecAlign == InitAlign /\ [][NextSelect]_vars

\* The documents table t can hold: rows as INSERT writes them, a row whose
\* column a is null and a row written before column a existed.
StoredDocs ==
    {Row(1, "a"), Row(2, "b"),
     [f \in {"id", "a"} |-> IF f = "id" THEN PyInt(3) ELSE None],
     [f \in {"id"} |-> PyInt(4)]}

\* The store before a writing statement: table t absent or holding any
\* documents under a unique index, its metadata document absent or present,
\* without or with a sequence counter.
MutateStores ==
    {[db |-> d, schema |-> m] :
        d \in {[tb \in {} |-> None]}
               \cup {[tb \in {LeftTable} |-> Collection(docs, {"a"})] :
                        docs \in SeqsUpTo(StoredDocs, MaxDocs)},
        m \in {[tb \in {} |-> None],
               [tb \in {LeftTable} |-> SchemaDoc([c \in {"id", "a"} |-> "int"], None)]}
               \cup {[tb \in {LeftTable} |->
                        SchemaDoc([c \in {"id", "a"} |-> "int"], Auto(seq, <<"id">>))] :
                        seq \in 0..MaxSeq}}

\* The statements that write: one UPDATE, DELETE, INSERT, CREATE, DROP or
\* ALTER.
MutateTexts ==
    UNION {{Parsed(1, t, b) : b \in Bodies(t)} : t \in FUNC_MAP \ {"SELECT"}}

\* A writing statement on any store, the store driver failing or not.
InitMutate ==
    /\ NotConstructed
    /\ sql \in MutateTexts
    /\ fault \in {NoFault} \cup {[at |-> a, kind |-> "OperationFailure"] :
                                   a \in {"store", "insert_many"}}
    /\ enforce_schema \in BOOLEAN
    /\ \E s \in MutateStores : db = s.db /\ schema = s.schema
    /\ cached_collections \in {{"__schema__", LeftTable}, {}}

NextMutate ==
    \/ QueryUpdate
    \/ QueryDelete
    \/ QueryInsert
    \/ QueryCreate
    \/ QueryDrop
    \/ QueryAlter
    \/ QueryCount

SpecMutate == InitMutate /\ [][NextMutate]_vars

\* CREATE TABLE t (id int AUTOINCREMENT, a string)
CreateTable ==
    Parsed(1, "CREATE",
           [what |-> "TABLE", table |-> LeftTable,
            columns |-> <<ColumnDef("id", "int", TRUE, FALSE, FALSE),
                          ColumnDef("a", "string", FALSE, FALSE, FALSE)>>])

\* INSERT INTO t (a) VALUES (%s) with the parameter 'a'
InsertRow == Parsed(1, "INSERT", InsertStatement(LeftTable, <<"a">>, <<"PARAMS">>))

\* SELECT t.id, t.a FROM t
SelectRows ==
    Parsed(1, "SELECT",
           SelectStatement(SelectList(FALSE, None,
                                      <<SQLToken(LeftTable, "id"), SQLToken(LeftTable, "a")>>),
                           FALSE, <<>>))

\* DROP TABLE t
DropTable ==
    Parsed(1, "DROP", [what |-> "TABLE", table |-> LeftTable, index |-> "a", on |-> TRUE])

\* ALTER TABLE t DROP COLUMN a, ALTER TABLE t FLUSH and ALTER TABLE t RENAME TO u
AlterTable(clause) == Parsed(1, "ALTER", AlterStatement(clause, "a"))

\* DELETE FROM t
DeleteRows == Parsed(1, "DELETE", [table |-> LeftTable, where |-> None])

\* The statements of a session: those above, ALTER TABLE t DROP COLUMN id, and
\* INSERT INTO u (a) VALUES (%s) with the parameter 'a'.
SessionStatements ==
    {CreateTable, InsertRow, SelectRows, DropTable, AlterTable("DROP COLUMN"),
     AlterTable("FLUSH"), DeleteRows, AlterTable("RENAME"),
     Parsed(1, "ALTER", AlterStatement("DROP COLUMN", "id")),
     Parsed(1, "INSERT", InsertStatement(ForeignTable, <<"a">>, <<"PARAMS">>))}

\* The statements a caller runs one after the other on one connection, each
\* through a Query object of its own.
Scripts == SeqsUpTo(SessionStatements, MaxScript) \ {<<>>}

\* The statement the caller is at: statement number at of script.
Session(script, at) ==
    [statements |-> script[at].statements, type |-> script[at].type,
     body |-> script[at].body, script |-> script, at |-> at]

\* A database nothing was written to, and a connection that has seen none
\* of its collections.
Fresh == db = <<>> /\ schema = <<>> /\ cached_collections = {}

\* Table t as CREATE TABLE and INSERTs left it: its rows, its metadata
\* document and the counter at the last row's id.
Populated ==
    /\ \E n \in 1..2 :
         /\ db = [tb \in {LeftTable} |->
                    Collection([i \in 1..n |-> Row(i, IF i = 1 THEN "a" ELSE "b")], {})]
         /\ schema = [tb \in {LeftTable} |->
                        SchemaDoc([c \in {"id", "a"} |-> IF c = "id" THEN "int" ELSE "string"],
                                  Auto(n, <<"id">>))]
    /\ cached_collections = {"__schema__", LeftTable}

SessionStart ==
    /\ NotConstructed
    /\ \E script \in Scripts : sql = Session(script, 1)
    /\ fault = NoFault
    /\ enforce_schema \in BOOLEAN

\* A session on a fresh database.
InitFresh == SessionStart /\ Fresh

\* A session on a database that holds table t.
InitSession == SessionStart /\ Populated

\* The caller goes on to the next statement of the script with a new Query
\* object; the database and the connection stay.
NewStatement ==
    /\ called # "nothing"
    /\ sql.at < Len(sql.script)
    /\ sql' = Session(sql.script, sql.at + 1)
    /\ _sql' = Unset
    /\ _query' = Unset
    /\ _result_generator' = None
    /\ last_row_id' = None
    /\ raised' = "none"
    /\ called' = "nothing"
    /\ row' = None
    /\ doc' = None
    /\ counted' = None
    /\ store_calls' = <<>>
    /\ UNCHANGED <<enforce_schema, cached_collections, fault, db, schema, ins>>

NextSession ==
    \/ QueryCreate
    \/ QueryInsert
    \/ QuerySelect
    \/ QueryDrop
    \/ QueryAlter
    \/ QueryDelete
    \/ QueryNextSelect
    \/ QueryNextEmpty
    \/ NewStatement

SpecSession == InitSession /\ [][NextSession]_vars

SpecFresh == InitFresh /\ [][NextSession]_vars

---------------------------------------------------------------------------
(* Properties of SELECT *)

\* The statement the Query was built for, when it is a SELECT that reached
\* the store.
SelectIssued == sql.type = "SELECT" /\ store_calls # <<>>

HasKeyword(stmt, words) == \E i \in DOMAIN stmt.tail : stmt.tail[i] \in words

\* The six features of the mode decision, read off the statement.
HasJoin(stmt) == HasKeyword(stmt, {"INNER JOIN", "LEFT OUTER JOIN"})
HasNested(stmt) == stmt.nested
HasDistinct(stmt) == stmt.columns.distinct
HasGroupBy(stmt) == HasKeyword(stmt, {"GROUP"})
HasConstant(stmt) == stmt.columns.const # None
HasFunction(stmt) ==
    \E i \in DOMAIN stmt.columns.tokens : stmt.columns.tokens[i].type = "SQLFunc"

\* C1: a SELECT reads through aggregate exactly when it has a join, a nested
\* subquery, DISTINCT, GROUP BY, a constant or a function in its select
\* list, and through find otherwise.
C1_ModeDecision ==
    SelectIssued =>
        LET feature == \/ HasJoin(sql.body) \/ HasNested(sql.body)
                       \/ HasDistinct(sql.body) \/ HasGroupBy(sql.body)
                       \/ HasConstant(sql.body) \/ HasFunction(sql.body)
        IN  /\ feature => store_calls[1].op = "aggregate"
            /\ ~feature => store_calls[1].op = "find"

\* The place of a clause in the pipeline.
Rank(clause) ==
    CASE clause = "JOIN" -> 1
      [] clause = "NESTED" -> 2
      [] clause = "WHERE" -> 3
      [] clause = "GROUP" -> 4
      [] clause = "HAVING" -> 5
      [] clause = "DISTINCT" -> 6
      [] clause = "ORDER" -> 7
      [] clause = "OFFSET" -> 8
      [] clause = "LIMIT" -> 9
      [] clause = "SELECT" -> 10

\* C2: in the pipeline of an aggregate call the stages stand in the order
\* joins (in source order), nested subquery, WHERE, GROUP BY, HAVING,
\* DISTINCT, sort, skip, limit, projection, whatever the order of the
\* clauses in the statement; every JOIN of the statement has its stages; and
\* the projection is there exactly when the statement has neither DISTINCT
\* nor GROUP BY.
C2_PipelineOrder ==
    (SelectIssued /\ store_calls[1].op = "aggregate") =>
        LET pipeline == store_calls[1].pipeline
            stmt == sql.body
        IN  /\ \A i, j \in DOMAIN pipeline :
                  i < j => /\ Rank(pipeline[i].clause) <= Rank(pipeline[j].clause)
                           /\ (pipeline[i].clause = "JOIN" /\ pipeline[j].clause = "JOIN")
                                 => pipeline[i].at <= pipeline[j].at
            /\ {pipeline[i].at : i \in {j \in DOMAIN pipeline : pipeline[j].clause = "JOIN"}}
                 = {Len(<<"SELECT", "FROM">>) + k :
                      k \in {j \in DOMAIN stmt.tail :
                               stmt.tail[j] \in {"INNER JOIN", "LEFT OUTER JOIN"}}}
            /\ (\E i \in DOMAIN pipeline : pipeline[i].clause = "SELECT")
                 <=> ~(HasDistinct(stmt) \/ HasGroupBy(stmt))

\* An OFFSET written before ORDER BY, compiled to a sort followed by a skip.
C2_Witness ==
    /\ SelectIssued
    /\ store_calls[1].op = "aggregate"
    /\ sql.body.tail = <<"OFFSET", "ORDER">>
    /\ \E i \in DOMAIN store_calls[1].pipeline :
         /\ store_calls[1].pipeline[i].op = "$sort"
         /\ store_calls[1].pipeline[i + 1].op = "$skip"

\* The last __next__ took a document from the cursor of a SELECT of columns.
Aligned ==
    /\ called = "__next__"
    /\ doc # None
    /\ sql.body.columns.const = None

\* Whether the document holds the selected column, and what it holds there.
Holds(d, tok) ==
    IF tok.type = "SQLFunc" THEN tok.alias \in DOMAIN d.top
    ELSE IF tok.table = LeftTable THEN tok.column \in DOMAIN d.top
    ELSE tok.table \in DOMAIN d.sub /\ tok.column \in DOMAIN d.sub[tok.table]

Held(d, tok) ==
    IF tok.type = "SQLFunc" THEN d.top[tok.alias]
    ELSE IF tok.table = LeftTable THEN d.top[tok.column]
    ELSE d.sub[tok.table][tok.column]

\* C6: when the document lacks a selected column, __next__ raises
\* MigrationError if the schema is enforced and otherwise yields a tuple
\* with None in that column's place; the tuple has one element per column of
\* the select list (of the DISTINCT list under DISTINCT), in its order.
C6_MissingColumn ==
    Aligned =>
        LET selected == sql.body.columns.tokens
            lacking == \E i \in DOMAIN selected : ~Holds(doc, selected[i])
        IN  IF lacking /\ enforce_schema
            THEN raised = "MigrationError"
            ELSE /\ raised = "none"
                 /\ row = PyTuple([i \in DOMAIN selected |->
                                     IF Holds(doc, selected[i]) THEN Held(doc, selected[i])
                                     ELSE None])

\* Two columns selected, the first missing from the document: NULL, value.
C6_Witness ==
    /\ Aligned
    /\ ~enforce_schema
    /\ raised = "none"
    /\ Len(sql.body.columns.tokens) = MaxCols
    /\ ~Holds(doc, sql.body.columns.tokens[1])
    /\ Holds(doc, sql.body.columns.tokens[MaxCols])
    /\ sql.body.columns.tokens[1].table = ForeignTable
    /\ row.items[1] = None
    /\ row.items[MaxCols] # None

---------------------------------------------------------------------------
(* Properties of the dispatcher *)

\* C7: text holding more than one statement fails with SQLDecodeError, and
\* no compiler is built, no store call issued and nothing changed in the
\* store, the metadata or the collection cache.
C7_MultiStatementRejected ==
    [][(called = "nothing" /\ sql.statements > 1) =>
          /\ raised' = "SQLDecodeError(sql)"
          /\ _query' = Unset
          /\ UNCHANGED <<db, schema, cached_collections, store_calls, last_row_id>>]_vars

\* Two statements, the first an INSERT, rejected.
C7_Witness ==
    /\ sql.statements > 1
    /\ sql.type = "INSERT"
    /\ called = "__init__"
    /\ raised = "SQLDecodeError(sql)"
    /\ store_calls = <<>>

\* What clause converters and the store driver raise, MigrationError aside.
RawFailures ==
    {"KeyError", "OperationFailure", "AutoReconnect", "InvalidDocument", "CollectionInvalid"}

\* C8: from Query(...), __next__ and count() the caller gets a failure of a
\* converter or of the store driver as SQLDecodeError, never as raised, and a
\* MigrationError as it is.
C8_FailuresNormalized ==
    /\ called \in {"__init__", "__next__", "count"} => raised \notin RawFailures
    /\ (/\ called = "__init__"
        /\ sql.statements = 1
        /\ sql.type \in {"SELECT", "UPDATE", "DELETE", "ALTER"}
        /\ fault.at = "converter")
         => raised = (IF fault.kind = "MigrationError" THEN "MigrationError"
                      ELSE "SQLDecodeError")

\* C9: a statement of a type other than the seven handled ones fails with
\* NotImplementedError, not wrapped; no compiler is built and no store call
\* issued.
C9_UnknownType ==
    [][(/\ called = "nothing"
        /\ sql.statements = 1
        /\ sql.type \notin {"SELECT", "UPDATE", "INSERT", "DELETE", "CREATE", "DROP", "ALTER"})
         => /\ raised' = "NotImplementedError"
            /\ _query' = Unset
            /\ UNCHANGED <<db, schema, cached_collections, store_calls, last_row_id>>]_vars

C9_Witness ==
    /\ sql.statements = 1
    /\ sql.type = "EXPLAIN"
    /\ called = "__init__"
    /\ raised = "NotImplementedError"
    /\ _query = Unset
    /\ store_calls = <<>>

\* No store cursor of the statement is open.
CursorReleased ==
    IF _query = None THEN TRUE
    ELSE IF _query._cursor = None THEN TRUE
    ELSE _query._cursor.closed

\* C10: close() raises nothing whenever it is called: before the first
\* __next__, after the last, on a statement with no compiler or no cursor;
\* it leaves no cursor of the statement open; and a close() right after a
\* close() changes nothing.
C10_CloseSafe ==
    [][called' = "close" =>
          /\ raised' = "none"
          /\ CursorReleased'
          /\ called = "close" => _query' = _query]_vars

\* A cursor with documents left, closed.
C10_Witness ==
    /\ called = "close"
    /\ raised = "none"
    /\ _query.type = "SelectQuery"
    /\ _query._cursor # None
    /\ _query._cursor.closed
    /\ _query._cursor.remaining > 0

---------------------------------------------------------------------------
(* Properties of the writing statements *)

\* The step in which Query(...) runs the handler of a statement of sm_type,
\* the store driver not failing.
Runs(sm_type) == called = "nothing" /\ sql.type = sm_type /\ fault = NoFault

\* The documents of table t before and after the step.
DocsBefore == DocsOf(db, LeftTable)
DocsAfter == DocsOf(db', LeftTable)

\* C11: an UPDATE or a DELETE with no WHERE is executed as one bulk call
\* that matches every document of the table: the UPDATE applies its SET to
\* every document, the DELETE removes every document, and neither fails.
C11_NoWhereMatchesAll ==
    [][((Runs("UPDATE") \/ Runs("DELETE")) /\ sql.body.where = None)
         => /\ raised' = "none"
            /\ Len(store_calls') = Len(store_calls) + 1
            /\ sql.type = "UPDATE" =>
                  /\ Len(DocsAfter) = Len(DocsBefore)
                  /\ \A i \in DOMAIN DocsAfter :
                        DocsAfter[i] = SetField(DocsBefore[i], sql.body.set.column,
                                                sql.body.set.value)
            /\ sql.type = "DELETE" => DocsAfter = <<>>]_vars

\* The documents of docs that do not match where, in their order.
NotMatching(docs, where) ==
    LET Keep(d) == ~Matches(d, where) IN SelectSeq(docs, Keep)

\* C12: DELETE FROM t WHERE f reports as its count the number of documents
\* of t that matched f just before, leaves no document of t matching f and
\* leaves the documents not matching f as they were; UPDATE reports the
\* matched count of the store; count() returns the reported count.
C12_ReportedCounts ==
    [][/\ (Runs("DELETE") /\ sql.body.where # None /\ raised' = "none")
            => /\ _query'.result.deleted_count = CountMatching(DocsBefore, sql.body.where)
               /\ CountMatching(DocsAfter, sql.body.where) = 0
               /\ DocsAfter = NotMatching(DocsBefore, sql.body.where)
       /\ (Runs("UPDATE") /\ raised' = "none")
            => _query'.result.matched_count = CountMatching(DocsBefore, sql.body.where)
       /\ (called' = "count" /\ sql.type = "DELETE")
            => counted' = PyInt(_query.result.deleted_count) /\ raised' = "none"
       /\ (called' = "count" /\ sql.type = "UPDATE")
            => counted' = PyInt(_query.result.matched_count) /\ raised' = "none"]_vars

\* A DELETE with a WHERE removed the one matching document of two: count()
\* returned 1 and the document that did not match is left.
C12_Witness ==
    /\ called = "count" /\ sql.type = "DELETE" /\ sql.body.where # None
    /\ counted = PyInt(1)
    /\ Len(DocsOf(db, LeftTable)) = 1
    /\ ~Matches(DocsOf(db, LeftTable)[1], sql.body.where)

\* The step issued exactly one store call, of operation op.
OneCall(op) ==
    /\ Len(store_calls') = Len(store_calls) + 1
    /\ store_calls'[Len(store_calls')].op = op

\* C13: DROP INDEX i ON t issues exactly one drop-index call that removes
\* index i of t's collection and completes without error; DROP INDEX with
\* no ON fails with a decode failure and drops nothing; DROP TABLE and DROP
\* DATABASE each issue the one corresponding removal call.
C13_DropCalls ==
    [][Runs("DROP") =>
        /\ (sql.body.what = "INDEX" /\ sql.body.on)
              => /\ raised' = "none"
                 /\ OneCall("drop_index")
                 /\ LeftTable \in DOMAIN db
                       => db'[LeftTable].indexes = db[LeftTable].indexes \ {sql.body.index}
        /\ (sql.body.what = "INDEX" /\ ~sql.body.on)
              => /\ raised' = "SQLDecodeError"
                 /\ store_calls' = store_calls /\ db' = db /\ schema' = schema
        /\ sql.body.what = "TABLE"
              => raised' = "none" /\ OneCall("drop_collection") /\ LeftTable \notin DOMAIN db'
        /\ sql.body.what = "DATABASE"
              => raised' = "none" /\ OneCall("drop_database") /\ DOMAIN db' = {}]_vars

\* The sub-clauses of ALTER TABLE the compiler does not enforce: ADD
\* CONSTRAINT ... FOREIGN KEY, DROP CONSTRAINT, ALTER COLUMN ... NULL / NOT
\* NULL, and a keyword parse() does not know (OWNER).
Unenforced == {"ADD CONSTRAINT", "DROP CONSTRAINT", "ALTER COLUMN", "OWNER"}

\* C14: an ALTER TABLE with a sub-clause the compiler does not enforce
\* never raises to the caller, and changes neither the rows of the table
\* nor the metadata document.
C14_UnenforcedNoOp ==
    [][(Runs("ALTER") /\ sql.body.clause \in Unenforced)
         => raised' = "none" /\ db' = db /\ schema' = schema]_vars

\* d is e without field f: f is gone, every other field is as in e.
Without(d, e, f) ==
    /\ DOMAIN d = DOMAIN e \ {f}
    /\ \A g \in DOMAIN d : d[g] = e[g]

\* The statement the caller ran just before the one it is at.
Previous == IF sql.at > 1 THEN sql.script[sql.at - 1] ELSE None

\* C15: after ALTER TABLE t DROP COLUMN c no document of t holds c and t's
\* metadata has no entry for c, every other field of every row and every
\* other metadata entry is as before; a SELECT naming c that follows reads
\* NULL for c when the schema is not enforced and fails with a migration
\* failure when it is.
C15_DropColumn ==
    [][/\ (Runs("ALTER") /\ sql.body.clause = "DROP COLUMN")
            => /\ raised' = "none"
               /\ Len(DocsAfter) = Len(DocsBefore)
               /\ \A i \in DOMAIN DocsAfter :
                     Without(DocsAfter[i], DocsBefore[i], sql.body.column)
               /\ DOMAIN schema' = DOMAIN schema
               /\ LeftTable \in DOMAIN schema
                     => /\ Without(schema'[LeftTable].fields, schema[LeftTable].fields,
                                   sql.body.column)
                        /\ schema'[LeftTable].auto = schema[LeftTable].auto
       /\ (/\ Previous = AlterTable("DROP COLUMN") /\ sql.type = "SELECT"
           /\ called' = "__next__" /\ doc' # None)
            => IF enforce_schema
               THEN raised' = "MigrationError" /\ row' = None
               ELSE /\ raised' = "none"
                    /\ row' = PyTuple(<<IF "id" \in DOMAIN doc'.top
                                        THEN doc'.top["id"] ELSE None, None>>)]_vars

\* The SELECT after the DROP COLUMN handed out the row of id 1 with NULL
\* for the dropped column.
C15_Witness ==
    /\ Previous = AlterTable("DROP COLUMN") /\ sql.type = "SELECT"
    /\ called = "__next__" /\ ~enforce_schema
    /\ raised = "none" /\ row = PyTuple(<<PyInt(1), None>>)
    /\ "a" \notin DOMAIN schema[LeftTable].fields

\* Document d lacks field f or holds null for it.
MissingOrNull(d, f) == IF f \in DOMAIN d THEN d[f] = None ELSE TRUE

RoundTrip == sql.script = <<CreateTable, InsertRow, SelectRows>>

\* C17: on a fresh database, CREATE TABLE t (id int AUTOINCREMENT, a
\* string), INSERT INTO t (a) VALUES ('a') and SELECT id, a FROM t yield
\* exactly one row, (1, 'a'): the counter is 0 after the creation, the
\* INSERT is accepted whether the schema is enforced or not, the inserted
\* row takes sequence value 1 and the last inserted id is 1.
C17_RoundTrip ==
    RoundTrip =>
        /\ (sql.at = 1 /\ called = "__init__")
              => raised = "none" /\ schema[LeftTable].auto = Auto(0, <<"id">>)
        /\ (sql.at = 2 /\ called = "__init__")
              => /\ raised = "none"
                 /\ last_row_id = PyInt(1)
                 /\ schema[LeftTable].auto.seq = 1
                 /\ DocsOf(db, LeftTable) = <<Row(1, "a")>>
        /\ (sql.at = 3 /\ called = "__init__") => raised = "none"
        /\ (sql.at = 3 /\ called = "__next__")
              => /\ raised \in {"none", "StopIteration"}
                 /\ _query._cursor.matched = 1
                 /\ _query._cursor.remaining = 0
                 /\ raised = "none" => row = PyTuple(<<PyInt(1), PyStr("a")>>)

\* With the schema enforced, the SELECT of the round trip handed out the
\* row (1, 'a').
C17_Witness ==
    /\ RoundTrip /\ sql.at = 3 /\ called = "__next__" /\ enforce_schema
    /\ raised = "none" /\ row = PyTuple(<<PyInt(1), PyStr("a")>>)

\* C18: CREATE TABLE for a table whose collection exists fails when the
\* schema is enforced and is silently ignored when it is not; either way
\* the table's rows, its indexes and its metadata document are unchanged.
C18_DuplicateCreate ==
    [][(Runs("CREATE") /\ sql.body.what = "TABLE" /\ sql.body.table \in DOMAIN db)
         => /\ enforce_schema => raised' # "none"
            /\ ~enforce_schema => raised' = "none"
            /\ db' = db
            /\ schema' = schema]_vars

\* An enforced CREATE TABLE failed on a table that holds two rows, an index
\* and a metadata document with a counter; all of them are still there.
C18_Witness ==
    /\ called = "__init__" /\ sql.type = "CREATE" /\ sql.body.what = "TABLE"
    /\ enforce_schema /\ raised = "SQLDecodeError"
    /\ Len(DocsOf(db, LeftTable)) = 2
    /\ db[LeftTable].indexes = {"a"}
    /\ schema # <<>>
    /\ schema[LeftTable].auto = Auto(1, <<"id">>)

\* The sequence counter of table t in metadata sch; -1 when t has no
\* autoincrement metadata.
Counter(sch) ==
    IF LeftTable \in DOMAIN sch
    THEN IF sch[LeftTable].auto # None THEN sch[LeftTable].auto.seq ELSE -1
    ELSE -1

\* C19: the sequence counter in the metadata document of a table with an
\* autoincrement column never decreases, whatever CREATE TABLE, INSERT,
\* ALTER, FLUSH, DELETE and DROP TABLE statements run.
C19_CounterMonotonic ==
    [][Counter(schema) >= 0 => Counter(schema') >= Counter(schema)]_vars

\* C20: after a successful INSERT last_row_id is the table's sequence
\* counter after the increment when the table has autoincrement metadata,
\* and the identifier the store gave the last row of the batch when it has
\* none; an INSERT that fails at the store leaves last_row_id as it was.
C20_LastRowId ==
    [][/\ (Runs("INSERT") /\ raised' = "none")
            => IF Counter(schema) >= 0
               THEN /\ Counter(schema') = Counter(schema) + Len(sql.body.groups)
                    /\ last_row_id' = PyInt(Counter(schema'))
               ELSE last_row_id' = ObjectId(DocsAfter[Len(DocsAfter)])
       /\ (/\ called = "nothing" /\ sql.type = "INSERT"
           /\ fault.at \in {"store", "insert_many"})
            => raised' # "none" /\ last_row_id' = last_row_id]_vars

\* An INSERT of two rows into a table whose counter was 1 succeeded:
\* last_row_id is 3, the counter's new value.
C20_Witness ==
    /\ called = "__init__" /\ sql.type = "INSERT" /\ raised = "none"
    /\ Len(sql.body.groups) = 2
    /\ Counter(schema) = 3
    /\ last_row_id = PyInt(3)

\* The table of the statement is neither in the connection's collection
\* cache nor among the collections of the store.
UnknownTable == sql.body.table \notin cached_collections \cup DOMAIN db

\* C21: an INSERT naming a table that is not among the known collections
\* raises MigrationError, unwrapped, when the schema is enforced, and issues
\* no store operation: the counter is not incremented and no row is
\* inserted. When the schema is not enforced the table is added to the
\* known collections and the insert proceeds to the store.
C21_UnknownTable ==
    [][(called = "nothing" /\ sql.type = "INSERT" /\ UnknownTable)
         => IF enforce_schema
            THEN /\ raised' = "MigrationError"
                 /\ store_calls' = store_calls
                 /\ db' = db /\ schema' = schema
                 /\ last_row_id' = last_row_id
            ELSE /\ sql.body.table \in cached_collections'
                 /\ raised' # "MigrationError"
                 /\ Len(store_calls') > Len(store_calls)
                 /\ (fault = NoFault /\ raised' = "none")
                       => /\ sql.body.table \in DOMAIN db'
                          /\ Len(DocsAfter) = Len(sql.body.groups)]_vars

\* An enforced INSERT into an unknown table whose metadata document holds
\* a counter failed with MigrationError; the counter is where it was and
\* the store has no collection for the table.
C21_Witness ==
    /\ called = "__init__" /\ sql.type = "INSERT" /\ enforce_schema
    /\ raised = "MigrationError" /\ store_calls = <<>>
    /\ cached_collections = {}
    /\ db = <<>>
    /\ Counter(schema) = 1

\* C23: DROP TABLE t removes the data collection of t and leaves t's
\* metadata document as it is, counter included; no statement deletes a
\* metadata document, short of removing the metadata collection itself
\* (with the database).
C23_DropKeepsMetadata ==
    [][/\ (Runs("DROP") /\ sql.body.what = "TABLE")
            => /\ raised' = "none"
               /\ OneCall("drop_collection")
               /\ sql.body.table \notin DOMAIN db'
               /\ schema' = schema
       /\ (sql.type = "DROP" => sql.body.what # "DATABASE")
            => /\ DOMAIN schema \subseteq DOMAIN schema'
               /\ \A tb \in DOMAIN schema :
                     schema[tb].auto # None => schema'[tb].auto # None]_vars

\* DROP TABLE t ran on a connection that knew the table: the collection is
\* gone, the metadata document still holds the field map and the counter.
C23_Witness ==
    /\ called = "__init__" /\ sql.type = "DROP" /\ sql.body.what = "TABLE"
    /\ raised = "none"
    /\ LeftTable \in cached_collections
    /\ db = <<>>
    /\ LeftTable \in DOMAIN schema
    /\ DOMAIN schema[LeftTable].fields = {"id", "a"}
    /\ Counter(schema) = 1

\* The statement before was an ALTER TABLE with this sub-clause.
After(clause) ==
    /\ Previous # None
    /\ Previous.type = "ALTER"
    /\ Previous.body.clause = clause

\* The rows an INSERT added to the table.
Added(table) ==
    {DocsOf(db', table)[i] :
        i \in (Len(DocsOf(db, table)) + 1)..Len(DocsOf(db', table))}

\* C26: after ALTER TABLE t DROP COLUMN c, a row inserted later by an INSERT
\* that does not name c does not contain c, also when c had been declared
\* AUTOINCREMENT: c is no longer in the autoincrement field list.
C26_DroppedColumnStaysOut ==
    [][(/\ After("DROP COLUMN") /\ Runs("INSERT")
        /\ sql.body.table = LeftTable /\ LeftTable \in DOMAIN schema
        /\ Previous.body.column \notin DOMAIN schema[LeftTable].fields
        /\ \A i \in DOMAIN sql.body.cols : sql.body.cols[i] # Previous.body.column
        /\ raised' = "none")
         => /\ \A d \in Added(LeftTable) : Previous.body.column \notin DOMAIN d
            /\ schema'[LeftTable].auto # None
                  => \A i \in DOMAIN schema'[LeftTable].auto.field_names :
                        schema'[LeftTable].auto.field_names[i] # Previous.body.column]_vars

\* C27: after ALTER TABLE t RENAME TO u the metadata follows the rename: the
\* metadata document is keyed by u, and the rows inserted into u afterwards
\* keep receiving autoincrement values that continue t's sequence.
C27_MetadataFollowsRename ==
    [][/\ (/\ Runs("ALTER") /\ sql.body.clause = "RENAME" /\ raised' = "none"
           /\ LeftTable \in DOMAIN schema)
            => /\ ForeignTable \in DOMAIN schema'
               /\ LeftTable \notin DOMAIN schema'
               /\ schema'[ForeignTable] = schema[LeftTable]
       /\ (/\ After("RENAME") /\ Runs("INSERT") /\ sql.body.table = ForeignTable
           /\ Counter(schema) >= 0 /\ LeftTable \notin DOMAIN db
           /\ ForeignTable \in DOMAIN db /\ raised' = "none")
            => \A d \in Added(ForeignTable) :
                  /\ "id" \in DOMAIN d
                  /\ d["id"].value > Counter(schema)
                  /\ \A i \in DOMAIN DocsOf(db, ForeignTable) :
                        d["id"].value > DocsOf(db, ForeignTable)[i]["id"].value]_vars

---------------------------------------------------------------------------
(* Properties of count() *)

\* The step is a count() on a SELECT that opens the statement's cursor and
\* returns.
FirstCount ==
    /\ called' = "count" /\ sql.type = "SELECT" /\ raised' = "none"
    /\ _query.type = "SelectQuery"
    /\ _query._cursor = None

\* The rows iterating the statement from the start yields when its cursor
\* holds n documents: one per document, or the single row [] of a constant
\* select whose cursor is empty.
RowsYielded(q, n) ==
    IF q.selected_columns.return_const # None /\ n = 0 THEN 1 ELSE n

\* C22: count() on a SELECT returns the store's match count on the
\* simple-read path and the number of documents of the materialized
\* pipeline output on the aggregation path; either way the value is the
\* number of rows iterating the statement from the start would yield.
C22_CountIsRowCount ==
    [][FirstCount =>
        IF _query'._cursor.type = "Cursor"
        THEN /\ counted' = PyInt(_query'._cursor.matched)
             /\ counted' = PyInt(RowsYielded(_query', _query'._cursor.remaining))
        ELSE /\ _query'._cursor.remaining = 0
             /\ RowsYielded(_query', counted'.value) = counted'.value]_vars

\* The find() and aggregate() calls among calls.
Reads(calls) == {i \in DOMAIN calls : calls[i].op \in {"find", "aggregate"}}

\* The documents the statement's cursor has yet to hand out; None before
\* the cursor exists.
Unread(q) == IF q._cursor = None THEN None ELSE PyInt(q._cursor.remaining)

\* C25: count() on a SELECT is repeatable and consumes nothing: every
\* count() of one statement returns the same value, a count() leaves the
\* rows iteration has yet to yield as they were, and the statement issues
\* its find or aggregate call at most once.
C25_CountRepeatable ==
    [][(sql.type = "SELECT" /\ _query.type = "SelectQuery"
        /\ called' = "count" /\ raised' = "none")
         => /\ counted # None => counted' = counted
            /\ Unread(_query) # None => Unread(_query') = Unread(_query)
            /\ (Unread(_query) = None /\ _query'._cursor.type = "CommandCursor")
                  => Unread(_query') = counted'
            /\ Cardinality(Reads(store_calls')) <= 1]_vars

---------------------------------------------------------------------------
(* Properties of the parameter markers *)

\* The places of the positional markers '%s' in a text.
Markers(string) ==
    {i \in 1..(Len(string) - 1) : string[i] = "%" /\ string[i + 1] = "s"}

\* The keyed references of a rewritten text, from left to right.
IsKeyed(piece) == piece \notin {"%", "s", "x"}
KeyedReferences(string) == SelectSeq(string, IsKeyed)

\* The rewritten text with '%s' put back for every keyed reference.
RECURSIVE MarkersBack(_)
MarkersBack(string) ==
    IF string = <<>> THEN <<>>
    ELSE (IF IsKeyed(Head(string)) THEN <<"%", "s">> ELSE <<Head(string)>>)
         \o MarkersBack(Tail(string))

\* C24: a text with k positional markers is rewritten, left to right, to a
\* text whose keyed references carry the indices 0 .. k-1: the j-th marker
\* gets index j-1, no index is skipped or repeated, and all other text is
\* unchanged.
C24_MarkersIndexed ==
    (called = "__init__" /\ "text" \in DOMAIN sql)
        => /\ KeyedReferences(_sql) =
                 [j \in 1..Cardinality(Markers(sql.text)) |->
                     "%(" \o ToString(j - 1) \o ")s"]
           /\ MarkersBack(_sql) = sql.text

\* The text %sx%s was rewritten to %(0)sx%(1)s.
C24_Witness ==
    /\ called = "__init__" /\ "text" \in DOMAIN sql
    /\ sql.text = <<"%", "s", "x", "%", "s">>
    /\ _sql = <<"%(0)s", "x", "%(1)s">>

====
